---- MODULE Spec2Model ----
(***************************************************************************)
(* State-machine models of the batch scripts of the repository.  Each      *)
(* script is a program of its own and has a specification of its own:      *)
(*   SpecSeverity     ow.py, the CVSS score -> severity derivation         *)
(*   SpecOw           ow.py, main / scan_project / process_scan_results    *)
(*   SpecRq2          rq2script.py, main / process_with_timeout            *)
(*   SpecSonar        SonarResultsGenerator.py, main (scan, export)        *)
(*   SpecSpider       github_spider.py, _make_request, the page loop       *)
(*   SpecTime         SonarResultsGenerator.py, parse_time, format_time    *)
(*   SpecRevert       revert_repos.py, revert_repos_to_date                *)
(*   SpecContributors get_contributors.py, the CSV loop and counts         *)
(*   SpecSummarize    SonarResultsGenerator.py, summarize_results          *)
(*   SpecFilter       github_csv_filter.py, main                           *)
(*   SpecWriter       the CSV writers of get_contributors, rq3_2script     *)
(*   SpecClone        clone_repos.py, clone_github_repos                   *)
(*   SpecIssues       rq3_2script.py, analyze_repositories                 *)
(* The variables of the scripts a specification does not run stay at their *)
(* "off" values.                                                           *)
(***************************************************************************)
EXTENDS Integers, Sequences, FiniteSets, TLC

VARIABLES
    \* ow.py, severity derivation on one vulnerability entry
    sev_pc, sev_v3, sev_v2, sev_score, sev_severity,
    \* ow.py, main
    ow_pc, ow_n, ow_idx, summary_data, detailed_data,
    success_count, failure_count,
    critical_count, high_count, medium_count, low_count, total_count,
    ow_scan, ow_lost, ow_budget, summary_csv, detailed_csv,
    \* rq2script.py, main
    rq_pc, rq_n, rq_entries, rq_idx, project_data, skipped_projects,
    commit_csv, skipped_file, skipped_file0, rq_pool, rq_submits, rq_outcome,
    \* SonarResultsGenerator.py, main
    sn_pc, sn_n, sn_scan, sn_collected, completed_projects, sn_export,
    sn_issues, sn_fetched, all_findings_list, all_findings_lock,
    all_results_csv,
    \* github_spider.py, get_repositories_by_page_range and _make_request
    gh_pc, gh_start_page, gh_end_page, gh_page, gh_req, gh_sent, gh_attempts,
    gh_clock, gh_resp, gh_result, all_repos, max_page_reached, gh_limit_seen,
    gh_asked, gh_returned,
    \* SonarResultsGenerator.py, parse_time and format_time
    tm_pc, tm_kind, tm_h, tm_m, tm_debt, tm_total, tm_text, tm_back,
    \* revert_repos.py, revert_repos_to_date
    rv_pc, rv_n, rv_idx, rv_repo, rv_default, failed_projects, rv_done,
    failed_log,
    \* get_contributors.py, process_csv_with_specific_columns
    ct_pc, ct_read, processed_rows, ct_call, ct_calls, contributors_count,
    ct_page, ct_result,
    \* SonarResultsGenerator.py, summarize_results
    sm_pc, sm_columns, sm_rows, aggregated_data, sm_projects, summary_file,
    \* github_csv_filter.py, main
    fl_pc, fl_columns, fl_args, repositories, fl_idx, filtered_repos,
    filtered_csv, fl_return,
    \* the CSV writers of get_contributors.py and rq3_2script.py
    wr_pc, wr_writer, wr_rows, wr_columns, wr_dir_existed, wr_dir_exists,
    wr_file0, wr_file, wr_outcome, wr_reported,
    \* clone_repos.py, clone_github_repos
    cl_pc, cl_rows, cl_enc, cl_idx, cl_attempts,
    \* rq3_2script.py, IssueResolutionAnalyzer.analyze_repositories
    ia_pc, ia_n, ia_idx, ia_times, all_issues, summary_results,
    ia_summary_csv

sevVars == <<sev_pc, sev_v3, sev_v2, sev_score, sev_severity>>
owVars == <<ow_pc, ow_n, ow_idx, summary_data, detailed_data,
            success_count, failure_count,
            critical_count, high_count, medium_count, low_count, total_count,
            ow_scan, ow_lost, ow_budget, summary_csv, detailed_csv>>
rqVars == <<rq_pc, rq_n, rq_entries, rq_idx, project_data, skipped_projects,
            commit_csv, skipped_file, skipped_file0, rq_pool, rq_submits, rq_outcome>>
snVars == <<sn_pc, sn_n, sn_scan, sn_collected, completed_projects, sn_export,
            sn_issues, sn_fetched, all_findings_list, all_findings_lock,
            all_results_csv>>
ghVars == <<gh_pc, gh_start_page, gh_end_page, gh_page, gh_req, gh_sent,
            gh_attempts, gh_clock, gh_resp, gh_result, all_repos,
            max_page_reached, gh_limit_seen, gh_asked, gh_returned>>
tmVars == <<tm_pc, tm_kind, tm_h, tm_m, tm_debt, tm_total, tm_text, tm_back>>
rvVars == <<rv_pc, rv_n, rv_idx, rv_repo, rv_default, failed_projects,
            rv_done, failed_log>>
ctVars == <<ct_pc, ct_read, processed_rows, ct_call, ct_calls,
            contributors_count, ct_page, ct_result>>
smVars == <<sm_pc, sm_columns, sm_rows, aggregated_data, sm_projects,
            summary_file>>
flVars == <<fl_pc, fl_columns, fl_args, repositories, fl_idx,
            filtered_repos, filtered_csv, fl_return>>
wrVars == <<wr_pc, wr_writer, wr_rows, wr_columns, wr_dir_existed,
            wr_dir_exists, wr_file0, wr_file, wr_outcome, wr_reported>>
clVars == <<cl_pc, cl_rows, cl_enc, cl_idx, cl_attempts>>
iaVars == <<ia_pc, ia_n, ia_idx, ia_times, all_issues, summary_results,
            ia_summary_csv>>
vars == <<sevVars, owVars, rqVars, snVars, ghVars, tmVars, rvVars, ctVars,
          smVars, flVars, wrVars, clVars, iaVars>>
\* the variables of the other scripts
notSev == <<owVars, rqVars, snVars, ghVars, tmVars, rvVars, ctVars, smVars,
            flVars, wrVars, clVars, iaVars>>
notOw == <<sevVars, rqVars, snVars, ghVars, tmVars, rvVars, ctVars, smVars,
           flVars, wrVars, clVars, iaVars>>
notRq == <<sevVars, owVars, snVars, ghVars, tmVars, rvVars, ctVars, smVars,
           flVars, wrVars, clVars, iaVars>>
notSn == <<sevVars, owVars, rqVars, ghVars, tmVars, rvVars, ctVars, smVars,
           flVars, wrVars, clVars, iaVars>>
notGh == <<sevVars, owVars, rqVars, snVars, tmVars, rvVars, ctVars, smVars,
           flVars, wrVars, clVars, iaVars>>
notTm == <<sevVars, owVars, rqVars, snVars, ghVars, rvVars, ctVars, smVars,
           flVars, wrVars, clVars, iaVars>>
notRv == <<sevVars, owVars, rqVars, snVars, ghVars, tmVars, ctVars, smVars,
           flVars, wrVars, clVars, iaVars>>
notCt == <<sevVars, owVars, rqVars, snVars, ghVars, tmVars, rvVars, smVars,
           flVars, wrVars, clVars, iaVars>>
notSm == <<sevVars, owVars, rqVars, snVars, ghVars, tmVars, rvVars, ctVars,
           flVars, wrVars, clVars, iaVars>>
notFl == <<sevVars, owVars, rqVars, snVars, ghVars, tmVars, rvVars, ctVars,
           smVars, wrVars, clVars, iaVars>>
notWr == <<sevVars, owVars, rqVars, snVars, ghVars, tmVars, rvVars, ctVars,
           smVars, flVars, clVars, iaVars>>
notCl == <<sevVars, owVars, rqVars, snVars, ghVars, tmVars, rvVars, ctVars,
           smVars, flVars, wrVars, iaVars>>
notIa == <<sevVars, owVars, rqVars, snVars, ghVars, tmVars, rvVars, ctVars,
           smVars, flVars, wrVars, clVars>>

(***************************************************************************)
(* ow.py: severity of a vulnerability entry.  CVSS scores are modelled in  *)
(* tenths (9.0 is 90).                                                     *)
(***************************************************************************)
\* the largest CVSS score of the inputs, in tenths
MaxScore == 100
\* dict.get found no such key (no CVSS score is negative)
Absent == -1

CRITICAL_MIN == 90
HIGH_MIN == 70
MEDIUM_MIN == 40

ScoreOpt == (0..MaxScore) \cup {Absent}

\* cvss_v3.get('baseScore', cvss_v2.get('score', 0))
CvssScore(v3, v2) ==
    IF v3 # Absent THEN v3 ELSE IF v2 # Absent THEN v2 ELSE 0

\* (a changed Severity: the 9.0 test written with > in place of >=)
SeverityStrict(cvss_score) ==
    IF cvss_score > CRITICAL_MIN THEN "CRITICAL"
    ELSE IF cvss_score >= HIGH_MIN THEN "HIGH"
    ELSE IF cvss_score >= MEDIUM_MIN THEN "MEDIUM"
    ELSE IF cvss_score > 0 THEN "LOW"
    ELSE "UNKNOWN"

\* the if/elif chain that sets severity
Severity(cvss_score) ==
    IF cvss_score >= CRITICAL_MIN THEN "CRITICAL"
    ELSE IF cvss_score >= HIGH_MIN THEN "HIGH"
    ELSE IF cvss_score >= MEDIUM_MIN THEN "MEDIUM"
    ELSE IF cvss_score > 0 THEN "LOW"
    ELSE "UNKNOWN"

SevOff ==
    /\ sev_pc = "off"
    /\ sev_v3 = Absent
    /\ sev_v2 = Absent
    /\ sev_score = 0
    /\ sev_severity = "none"

SevInit ==
    /\ sev_pc = "vuln"
    /\ sev_v3 \in ScoreOpt
    /\ sev_v2 \in ScoreOpt
    /\ sev_score = 0
    /\ sev_severity = "none"

\* one iteration of "for vuln in vulnerabilities", up to the severity
SevDerive ==
    /\ sev_pc = "vuln"
    /\ sev_score' = CvssScore(sev_v3, sev_v2)
    /\ sev_severity' = Severity(CvssScore(sev_v3, sev_v2))
    /\ sev_pc' = "derived"
    /\ UNCHANGED <<sev_v3, sev_v2>>
    /\ UNCHANGED notSev

SevNext == SevDerive

(***************************************************************************)
(* ow.py: main.  A project is its index in the list find_projects returns  *)
(* (directory entries have distinct names).  A scan result is read one     *)
(* vulnerability entry at a time, the dependencies flattened: a dependency *)
(* without vulnerabilities is skipped by the code and adds nothing.        *)
(***************************************************************************)
\* the most projects find_projects returns
NumProjects == 2
\* the most vulnerability entries of one run
MaxFindings == 3

\* one score per severity bucket, each on the bucket's lower edge
OwScores == {0, 1, MEDIUM_MIN, HIGH_MIN, CRITICAL_MIN}
\* where a malformed vulnerability entry raises inside the try block:
\* "score" before any counter is touched (cvssv3 is null, the score is a
\* string), "row" while the detailed row is built (cwes or references is
\* not a list of the expected shape), after the counters were incremented
Malformed == {"ok", "score", "row"}

NoFile == [exists |-> FALSE, rows |-> <<>>]
Written(rows) == [exists |-> TRUE, rows |-> rows]

SummaryRow(name, suffix, c, h, m, l, t) ==
    [projectName |-> <<name, suffix>>,
     criticalSeverityCount |-> c, highSeverityCount |-> h,
     mediumSeverityCount |-> m, lowSeverityCount |-> l,
     totalVulnerabilities |-> t]

ZeroRow(name, suffix) == SummaryRow(name, suffix, 0, 0, 0, 0, 0)

DetailedRow(name, severity, cvss_score) ==
    [projectName |-> name, severity |-> severity, cvssScore |-> cvss_score]

OwOff ==
    /\ ow_pc = "off"
    /\ ow_n = 0
    /\ ow_idx = 1
    /\ summary_data = <<>>
    /\ detailed_data = <<>>
    /\ success_count = 0
    /\ failure_count = 0
    /\ critical_count = 0
    /\ high_count = 0
    /\ medium_count = 0
    /\ low_count = 0
    /\ total_count = 0
    /\ ow_scan = [i \in 1..NumProjects |-> "pending"]
    /\ ow_lost = [i \in 1..NumProjects |-> 0]
    /\ ow_budget = 0
    /\ summary_csv = NoFile
    /\ detailed_csv = NoFile

OwInit ==
    /\ ow_pc = "scan"
    /\ ow_n \in 0..NumProjects
    /\ ow_idx = 1
    /\ summary_data = <<>>
    /\ detailed_data = <<>>
    /\ success_count = 0
    /\ failure_count = 0
    /\ critical_count = 0
    /\ high_count = 0
    /\ medium_count = 0
    /\ low_count = 0
    /\ total_count = 0
    /\ ow_scan = [i \in 1..NumProjects |-> "pending"]
    /\ ow_lost = [i \in 1..NumProjects |-> 0]
    /\ ow_budget = MaxFindings
    /\ summary_csv = NoFile
    /\ detailed_csv = NoFile

owCounters == <<critical_count, high_count, medium_count, low_count, total_count>>
owFiles == <<summary_csv, detailed_csv>>

\* "if not projects: return 1"
OwNoProjects ==
    /\ ow_pc = "scan"
    /\ ow_n = 0
    /\ ow_pc' = "exit1"
    /\ UNCHANGED <<ow_n, ow_idx, summary_data, detailed_data, success_count,
                   failure_count, owCounters, ow_scan, ow_lost, ow_budget, owFiles>>
    /\ UNCHANGED notOw

\* scan_project returns None: the scanner exits non-zero, the report file is
\* missing, the report does not parse, or the try block raises
ScanFailures == {"exit_code", "no_file", "bad_json", "exception"}

OwScanFailed(kind) ==
    /\ ow_pc = "scan"
    /\ ow_idx <= ow_n
    /\ kind \in ScanFailures
    /\ failure_count' = failure_count + 1
    /\ summary_data' = Append(summary_data, ZeroRow(ow_idx, ""))
    /\ ow_scan' = [ow_scan EXCEPT ![ow_idx] = "failed"]
    /\ ow_idx' = ow_idx + 1
    /\ UNCHANGED <<ow_pc, ow_n, detailed_data, success_count, owCounters,
                   ow_lost, ow_budget, owFiles>>
    /\ UNCHANGED notOw

\* (a changed OwScanRaised: the except branch counts the failure and
\* appends no row)
OwScanRaisedNoRow ==
    /\ ow_pc = "scan"
    /\ ow_idx <= ow_n
    /\ failure_count' = failure_count + 1
    /\ ow_scan' = [ow_scan EXCEPT ![ow_idx] = "failed"]
    /\ ow_idx' = ow_idx + 1
    /\ UNCHANGED <<ow_pc, ow_n, summary_data, detailed_data, success_count,
                   owCounters, ow_lost, ow_budget, owFiles>>
    /\ UNCHANGED notOw

\* scan_project raises before its try block (os.makedirs): main's except
OwScanRaised ==
    /\ ow_pc = "scan"
    /\ ow_idx <= ow_n
    /\ failure_count' = failure_count + 1
    /\ summary_data' = Append(summary_data, ZeroRow(ow_idx, " (SCAN FAILED)"))
    /\ ow_scan' = [ow_scan EXCEPT ![ow_idx] = "failed"]
    /\ ow_idx' = ow_idx + 1
    /\ UNCHANGED <<ow_pc, ow_n, detailed_data, success_count, owCounters,
                   ow_lost, ow_budget, owFiles>>
    /\ UNCHANGED notOw

\* scan_project returns a report that is not None but falsy ({}):
\* process_scan_results appends the zero row and returns
OwScanEmpty ==
    /\ ow_pc = "scan"
    /\ ow_idx <= ow_n
    /\ summary_data' = Append(summary_data, ZeroRow(ow_idx, ""))
    /\ success_count' = success_count + 1
    /\ ow_scan' = [ow_scan EXCEPT ![ow_idx] = "ok"]
    /\ ow_idx' = ow_idx + 1
    /\ UNCHANGED <<ow_pc, ow_n, detailed_data, failure_count, owCounters,
                   ow_lost, ow_budget, owFiles>>
    /\ UNCHANGED notOw

\* scan_project returns a report: process_scan_results starts its counters
OwScanOk ==
    /\ ow_pc = "scan"
    /\ ow_idx <= ow_n
    /\ ow_scan' = [ow_scan EXCEPT ![ow_idx] = "ok"]
    /\ critical_count' = 0
    /\ high_count' = 0
    /\ medium_count' = 0
    /\ low_count' = 0
    /\ total_count' = 0
    /\ ow_pc' = "process"
    /\ UNCHANGED <<ow_n, ow_idx, summary_data, detailed_data, success_count,
                   failure_count, ow_lost, ow_budget, owFiles>>
    /\ UNCHANGED notOw

\* (a changed Inc: the HIGH test written with "if" in place of "elif", so
\* that a critical score is counted as high too)
IncNoElif(severity, bucket) ==
    IF severity = bucket \/ (bucket = "HIGH" /\ severity = "CRITICAL") THEN 1 ELSE 0

\* the "+= 1" of one branch of the if/elif chain: the counter of the
\* bucket the severity falls in, and no other, is incremented
Inc(severity, bucket) == IF severity = bucket THEN 1 ELSE 0

\* the summary append that ends process_scan_results, and main's
\* "success_count += 1" after the call
OwEndProcess(c, h, m, l, t) ==
    /\ summary_data' = Append(summary_data, SummaryRow(ow_idx, "", c, h, m, l, t))
    /\ success_count' = success_count + 1
    /\ ow_idx' = ow_idx + 1
    /\ ow_pc' = "scan"

\* (a changed OwVuln: total_count is incremented after the detailed row
\* has been appended, so that an exception while the row is built leaves
\* the total behind the counters)
OwVulnTotalAfterRow(v3, v2, bad) ==
    /\ ow_pc = "process"
    /\ ow_budget > 0
    /\ ow_budget' = ow_budget - 1
    /\ LET cvss_score == CvssScore(v3, v2)
           severity == Severity(cvss_score)
           c == critical_count + Inc(severity, "CRITICAL")
           h == high_count + Inc(severity, "HIGH")
           m == medium_count + Inc(severity, "MEDIUM")
           l == low_count + Inc(severity, "LOW")
           t == total_count + (IF severity # "UNKNOWN" THEN 1 ELSE 0)
       IN  CASE bad = "score" ->
                  /\ OwEndProcess(critical_count, high_count, medium_count,
                                  low_count, total_count)
                  /\ UNCHANGED <<detailed_data, owCounters, ow_lost>>
             [] bad = "row" ->
                  /\ critical_count' = c
                  /\ high_count' = h
                  /\ medium_count' = m
                  /\ low_count' = l
                  /\ total_count' = total_count
                  /\ OwEndProcess(c, h, m, l, total_count)
                  /\ ow_lost' = [ow_lost EXCEPT
                                   ![ow_idx] = IF severity # "UNKNOWN" THEN 1 ELSE 0]
                  /\ UNCHANGED detailed_data
             [] OTHER ->
                  /\ critical_count' = c
                  /\ high_count' = h
                  /\ medium_count' = m
                  /\ low_count' = l
                  /\ total_count' = t
                  /\ detailed_data' = Append(detailed_data,
                                             DetailedRow(ow_idx, severity, cvss_score))
                  /\ UNCHANGED <<ow_pc, ow_idx, summary_data, success_count, ow_lost>>
    /\ UNCHANGED <<ow_n, failure_count, ow_scan, owFiles>>
    /\ UNCHANGED notOw

\* one iteration of "for vuln in vulnerabilities"
OwVuln(v3, v2, bad) ==
    /\ ow_pc = "process"
    /\ ow_budget > 0
    /\ ow_budget' = ow_budget - 1
    /\ LET cvss_score == CvssScore(v3, v2)
           severity == Severity(cvss_score)
           c == critical_count + Inc(severity, "CRITICAL")
           h == high_count + Inc(severity, "HIGH")
           m == medium_count + Inc(severity, "MEDIUM")
           l == low_count + Inc(severity, "LOW")
           t == total_count + (IF severity # "UNKNOWN" THEN 1 ELSE 0)
       IN  CASE bad = "score" ->
                  /\ OwEndProcess(critical_count, high_count, medium_count,
                                  low_count, total_count)
                  /\ UNCHANGED <<detailed_data, owCounters, ow_lost>>
             [] bad = "row" ->
                  /\ critical_count' = c
                  /\ high_count' = h
                  /\ medium_count' = m
                  /\ low_count' = l
                  /\ total_count' = t
                  /\ OwEndProcess(c, h, m, l, t)
                  /\ ow_lost' = [ow_lost EXCEPT
                                   ![ow_idx] = IF severity # "UNKNOWN" THEN 1 ELSE 0]
                  /\ UNCHANGED detailed_data
             [] OTHER ->
                  /\ critical_count' = c
                  /\ high_count' = h
                  /\ medium_count' = m
                  /\ low_count' = l
                  /\ total_count' = t
                  /\ detailed_data' = Append(detailed_data,
                                             DetailedRow(ow_idx, severity, cvss_score))
                  /\ UNCHANGED <<ow_pc, ow_idx, summary_data, success_count, ow_lost>>
    /\ UNCHANGED <<ow_n, failure_count, ow_scan, owFiles>>
    /\ UNCHANGED notOw

\* the loops over the report end
OwEndOfReport ==
    /\ ow_pc = "process"
    /\ OwEndProcess(critical_count, high_count, medium_count, low_count, total_count)
    /\ UNCHANGED <<ow_n, detailed_data, failure_count, owCounters, ow_scan,
                   ow_lost, ow_budget, owFiles>>
    /\ UNCHANGED notOw

\* write_csv_report, after the loop over the projects
OwWriteReport ==
    /\ ow_pc = "scan"
    /\ ow_n > 0
    /\ ow_idx > ow_n
    /\ summary_csv' = Written(summary_data)
    /\ detailed_csv' = IF detailed_data # <<>> THEN Written(detailed_data)
                       ELSE detailed_csv
    /\ ow_pc' = "done"
    /\ UNCHANGED <<ow_n, ow_idx, summary_data, detailed_data, success_count,
                   failure_count, owCounters, ow_scan, ow_lost, ow_budget>>
    /\ UNCHANGED notOw

OwNext ==
    \/ OwNoProjects
    \/ \E kind \in ScanFailures : OwScanFailed(kind)
    \/ OwScanRaised
    \/ OwScanEmpty
    \/ OwScanOk
    \/ \E v3 \in OwScores \cup {Absent}, v2 \in OwScores \cup {Absent},
          bad \in Malformed : OwVuln(v3, v2, bad)
    \/ OwEndOfReport
    \/ OwWriteReport

(***************************************************************************)
(* rq2script.py: main and process_with_timeout.  A directory entry is its  *)
(* index in os.listdir's result; rq_entries says which entries are git     *)
(* repositories.  Each call of process_with_timeout makes a pool of one    *)
(* worker process of its own, rq_pool[i] for entry i.                      *)
(***************************************************************************)
\* the most entries of the projects folder
NumEntries == 3

\* skipped_projects.txt as an earlier run of the script left it: not there,
\* or listing what that run skipped
EarlierSkippedFiles == {NoFile, Written(<<1>>)}

RqOff ==
    /\ rq_pc = "off"
    /\ rq_n = 0
    /\ rq_entries = [i \in 1..NumEntries |-> "other"]
    /\ rq_idx = 1
    /\ project_data = <<>>
    /\ skipped_projects = <<>>
    /\ commit_csv = NoFile
    /\ skipped_file = NoFile
    /\ skipped_file0 = NoFile
    /\ rq_pool = [i \in 1..NumEntries |-> "none"]
    /\ rq_submits = [i \in 1..NumEntries |-> 0]
    /\ rq_outcome = [i \in 1..NumEntries |-> "pending"]

RqInit ==
    /\ rq_pc = "loop"
    /\ rq_n \in 0..NumEntries
    /\ rq_entries \in [1..NumEntries -> {"git", "other"}]
    /\ \A i \in 1..NumEntries : i > rq_n => rq_entries[i] = "other"
    /\ rq_idx = 1
    /\ project_data = <<>>
    /\ skipped_projects = <<>>
    /\ commit_csv = NoFile
    /\ skipped_file \in EarlierSkippedFiles
    /\ skipped_file0 = skipped_file
    /\ rq_pool = [i \in 1..NumEntries |-> "none"]
    /\ rq_submits = [i \in 1..NumEntries |-> 0]
    /\ rq_outcome = [i \in 1..NumEntries |-> "pending"]

rqFiles == <<commit_csv, skipped_file, skipped_file0>>

\* an entry that is no directory with a .git in it: the loop body is skipped
RqNotGit ==
    /\ rq_pc = "loop"
    /\ rq_idx <= rq_n
    /\ rq_entries[rq_idx] = "other"
    /\ rq_idx' = rq_idx + 1
    /\ UNCHANGED <<rq_pc, rq_n, rq_entries, project_data, skipped_projects,
                   rqFiles, rq_pool, rq_submits, rq_outcome>>
    /\ UNCHANGED notRq

\* process_with_timeout: the pool is made and process_project submitted
RqSubmit ==
    /\ rq_pc = "loop"
    /\ rq_idx <= rq_n
    /\ rq_entries[rq_idx] = "git"
    /\ rq_pool' = [rq_pool EXCEPT ![rq_idx] = "running"]
    /\ rq_submits' = [rq_submits EXCEPT ![rq_idx] = @ + 1]
    /\ rq_pc' = "wait"
    /\ UNCHANGED <<rq_n, rq_entries, rq_idx, project_data, skipped_projects,
                   rqFiles, rq_outcome>>
    /\ UNCHANGED notRq

\* "if project_info: ... else: ..." of main, and the step to the next entry
RqRecord(project_info) ==
    /\ project_data' = IF project_info # "None"
                       THEN Append(project_data, rq_idx) ELSE project_data
    /\ skipped_projects' = IF project_info # "None"
                           THEN skipped_projects
                           ELSE Append(skipped_projects, rq_idx)
    /\ rq_idx' = rq_idx + 1
    /\ rq_pc' = "loop"

\* (a changed RqTimeout: after the timeout the project is left in place, so
\* that the loop submits it again)
RqTimeoutRetry ==
    /\ rq_pc = "wait"
    /\ rq_pool' = [rq_pool EXCEPT ![rq_idx] = "terminated"]
    /\ rq_outcome' = [rq_outcome EXCEPT ![rq_idx] = "timeout"]
    /\ rq_pc' = "loop"
    /\ UNCHANGED <<rq_n, rq_entries, rq_idx, project_data, skipped_projects,
                   rqFiles, rq_submits>>
    /\ UNCHANGED notRq

\* result.get raises TimeoutError: pool.terminate(), pool.join(), return None
RqTimeout ==
    /\ rq_pc = "wait"
    /\ rq_pool' = [rq_pool EXCEPT ![rq_idx] = "terminated"]
    /\ rq_outcome' = [rq_outcome EXCEPT ![rq_idx] = "timeout"]
    /\ RqRecord("None")
    /\ UNCHANGED <<rq_n, rq_entries, rqFiles, rq_submits>>
    /\ UNCHANGED notRq

\* (a changed RqReturn: a project whose processing raised is dropped from
\* both lists)
RqReturnDropsError(val) ==
    /\ rq_pc = "wait"
    /\ rq_pool' = [rq_pool EXCEPT ![rq_idx] = "closed"]
    /\ rq_outcome' = [rq_outcome EXCEPT
                        ![rq_idx] = IF val = "None" THEN "error" ELSE "ok"]
    /\ project_data' = IF val # "None" THEN Append(project_data, rq_idx)
                       ELSE project_data
    /\ rq_idx' = rq_idx + 1
    /\ rq_pc' = "loop"
    /\ UNCHANGED <<rq_n, rq_entries, skipped_projects, rqFiles, rq_submits>>
    /\ UNCHANGED notRq

\* result.get returns in time what process_project returned: the row, or
\* None when process_project caught an exception; pool.close(), pool.join()
RqReturn(val) ==
    /\ rq_pc = "wait"
    /\ rq_pool' = [rq_pool EXCEPT ![rq_idx] = "closed"]
    /\ rq_outcome' = [rq_outcome EXCEPT
                        ![rq_idx] = IF val = "None" THEN "error" ELSE "ok"]
    /\ RqRecord(val)
    /\ UNCHANGED <<rq_n, rq_entries, rqFiles, rq_submits>>
    /\ UNCHANGED notRq

\* after the loop: the CSV when there are rows, skipped_projects.txt when
\* there are skipped projects
RqSave ==
    /\ rq_pc = "loop"
    /\ rq_idx > rq_n
    /\ commit_csv' = IF project_data # <<>> THEN Written(project_data)
                     ELSE commit_csv
    /\ skipped_file' = IF skipped_projects # <<>> THEN Written(skipped_projects)
                       ELSE skipped_file
    /\ rq_pc' = "done"
    /\ UNCHANGED <<rq_n, rq_entries, rq_idx, project_data, skipped_projects,
                   skipped_file0, rq_pool, rq_submits, rq_outcome>>
    /\ UNCHANGED notRq

RqNext ==
    \/ RqNotGit
    \/ RqSubmit
    \/ RqTimeout
    \/ \E val \in {"row", "None"} : RqReturn(val)
    \/ RqSave

(***************************************************************************)
(* SonarResultsGenerator.py: main.  Phase 1 submits scan_project for every *)
(* project to a ThreadPoolExecutor and takes the futures as they complete; *)
(* phase 2 does the same with export_scan_report for the projects of       *)
(* completed_projects; then the findings are written.  sn_scan[i] and      *)
(* sn_export[i] are the states of project i's two futures.                 *)
(***************************************************************************)
\* the most projects of the projects folder
NumSonarProjects == 3
\* the most issues search_issues returns for one project
MaxIssues == 2
\* the pool size (the environment variable MAX_WORKERS)
MAX_WORKERS == 2

SonarProjects == 1..sn_n
ScanFinished == {"ok", "failed", "raised"}
Scanning == {i \in SonarProjects : sn_scan[i] = "running"}
Exporting == {i \in SonarProjects : sn_export[i] \in {"running", "waiting", "locked"}}

SnOff ==
    /\ sn_pc = "off"
    /\ sn_n = 0
    /\ sn_scan = [i \in 1..NumSonarProjects |-> "none"]
    /\ sn_collected = {}
    /\ completed_projects = <<>>
    /\ sn_export = [i \in 1..NumSonarProjects |-> "none"]
    /\ sn_issues = [i \in 1..NumSonarProjects |-> 0]
    /\ sn_fetched = [i \in 1..NumSonarProjects |-> 0]
    /\ all_findings_list = <<>>
    /\ all_findings_lock = 0
    /\ all_results_csv = NoFile

\* main after the executor.submit calls of phase 1
SnInit ==
    /\ sn_pc = "scan"
    /\ sn_n \in 0..NumSonarProjects
    /\ sn_scan = [i \in 1..NumSonarProjects |-> IF i <= sn_n THEN "pending" ELSE "none"]
    /\ sn_collected = {}
    /\ completed_projects = <<>>
    /\ sn_export = [i \in 1..NumSonarProjects |-> "none"]
    /\ sn_issues = [i \in 1..NumSonarProjects |-> 0]
    /\ sn_fetched = [i \in 1..NumSonarProjects |-> 0]
    /\ all_findings_list = <<>>
    /\ all_findings_lock = 0
    /\ all_results_csv = NoFile

snExportState == <<sn_export, sn_issues, sn_fetched, all_findings_list, all_findings_lock,
                   all_results_csv>>

\* a pool thread takes a submitted scan_project call
SnStartScan(i) ==
    /\ sn_pc \in {"scan", "unwind"}
    /\ sn_scan[i] = "pending"
    /\ Cardinality(Scanning) < MAX_WORKERS
    /\ sn_scan' = [sn_scan EXCEPT ![i] = "running"]
    /\ UNCHANGED <<sn_pc, sn_n, sn_collected, completed_projects, snExportState>>
    /\ UNCHANGED notSn

\* scan_project ends: subprocess.run returned ("ok": return key, True), it
\* raised CalledProcessError ("failed": caught, return key, False), or it
\* raised something else, as FileNotFoundError when the scanner cannot be
\* launched ("raised": no except clause catches it, the future holds it)
SnScanEnds(i, how) ==
    /\ sn_scan[i] = "running"
    /\ how \in ScanFinished
    /\ sn_scan' = [sn_scan EXCEPT ![i] = how]
    /\ UNCHANGED <<sn_pc, sn_n, sn_collected, completed_projects, snExportState>>
    /\ UNCHANGED notSn

\* one iteration of "for future in as_completed(futures)" of phase 1:
\* future.result() returns the pair, or raises what scan_project raised,
\* which leaves the loop and the with block
SnCollect(i) ==
    /\ sn_pc = "scan"
    /\ i \in SonarProjects \ sn_collected
    /\ sn_scan[i] \in ScanFinished
    /\ sn_collected' = sn_collected \cup {i}
    /\ completed_projects' = IF sn_scan[i] = "ok"
                             THEN Append(completed_projects, i)
                             ELSE completed_projects
    /\ sn_pc' = IF sn_scan[i] = "raised" THEN "unwind" ELSE "scan"
    /\ UNCHANGED <<sn_n, sn_scan, snExportState>>
    /\ UNCHANGED notSn

\* the executor's __exit__ has waited for every submitted scan; the
\* exception leaves main
SnAbort ==
    /\ sn_pc = "unwind"
    /\ \A i \in SonarProjects : sn_scan[i] \in ScanFinished
    /\ sn_pc' = "aborted"
    /\ UNCHANGED <<sn_n, sn_scan, sn_collected, completed_projects, snExportState>>
    /\ UNCHANGED notSn

\* phase 1 ends and phase 2 submits export_scan_report for every project
\* of completed_projects
SnSubmitExports ==
    /\ sn_pc = "scan"
    /\ sn_collected = SonarProjects
    /\ sn_export' = [i \in 1..NumSonarProjects |->
                       IF \E k \in DOMAIN completed_projects : completed_projects[k] = i
                       THEN "pending" ELSE "none"]
    /\ sn_pc' = "export"
    /\ UNCHANGED <<sn_n, sn_scan, sn_collected, completed_projects, sn_issues, sn_fetched,
                   all_findings_list, all_findings_lock, all_results_csv>>
    /\ UNCHANGED notSn

\* a pool thread takes a submitted export_scan_report call
SnStartExport(i) ==
    /\ sn_pc = "export"
    /\ sn_export[i] = "pending"
    /\ Cardinality(Exporting) < MAX_WORKERS
    /\ sn_export' = [sn_export EXCEPT ![i] = "running"]
    /\ UNCHANGED <<sn_pc, sn_n, sn_scan, sn_collected, completed_projects,
                   sn_issues, sn_fetched, all_findings_list, all_findings_lock, all_results_csv>>
    /\ UNCHANGED notSn

\* search_issues returns k issues, or raises (k = -1): with no issue, or an
\* exception, export_scan_report returns False
SnFetch(i, k) ==
    /\ sn_export[i] = "running"
    /\ k \in -1..MaxIssues
    /\ sn_export' = [sn_export EXCEPT ![i] = IF k > 0 THEN "waiting" ELSE "done"]
    /\ sn_issues' = [sn_issues EXCEPT ![i] = IF k > 0 THEN k ELSE 0]
    /\ sn_fetched' = [sn_fetched EXCEPT ![i] = IF k > 0 THEN k ELSE 0]
    /\ UNCHANGED <<sn_pc, sn_n, sn_scan, sn_collected, completed_projects,
                   all_findings_list, all_findings_lock, all_results_csv>>
    /\ UNCHANGED notSn

\* (a changed SnAcquire: the with block is entered whether or not the lock
\* is free)
SnAcquireNoLock(i) ==
    /\ sn_export[i] = "waiting"
    /\ all_findings_lock' = i
    /\ sn_export' = [sn_export EXCEPT ![i] = "locked"]
    /\ UNCHANGED <<sn_pc, sn_n, sn_scan, sn_collected, completed_projects,
                   sn_issues, sn_fetched, all_findings_list, all_results_csv>>
    /\ UNCHANGED notSn

\* "with lock:" is entered
SnAcquire(i) ==
    /\ sn_export[i] = "waiting"
    /\ all_findings_lock = 0
    /\ all_findings_lock' = i
    /\ sn_export' = [sn_export EXCEPT ![i] = "locked"]
    /\ UNCHANGED <<sn_pc, sn_n, sn_scan, sn_collected, completed_projects,
                   sn_issues, sn_fetched, all_findings_list, all_results_csv>>
    /\ UNCHANGED notSn

\* one iteration of "for issue in issues": the issue is tagged with the
\* project and appended
SnAppend(i) ==
    /\ sn_export[i] = "locked"
    /\ sn_issues[i] > 0
    /\ all_findings_list' = Append(all_findings_list,
                                   [project |-> i, fetched_for |-> i,
                                    issue |-> sn_issues[i]])
    /\ sn_issues' = [sn_issues EXCEPT ![i] = @ - 1]
    /\ UNCHANGED <<sn_fetched, sn_pc, sn_n, sn_scan, sn_collected, completed_projects,
                   sn_export, all_findings_lock, all_results_csv>>
    /\ UNCHANGED notSn

\* the with block is left; export_scan_report returns True
SnRelease(i) ==
    /\ sn_export[i] = "locked"
    /\ sn_issues[i] = 0
    /\ all_findings_lock' = 0
    /\ sn_export' = [sn_export EXCEPT ![i] = "done"]
    /\ UNCHANGED <<sn_pc, sn_n, sn_scan, sn_collected, completed_projects,
                   sn_issues, sn_fetched, all_findings_list, all_results_csv>>
    /\ UNCHANGED notSn

\* (a changed SnWrite: step 3 does not wait for the export workers)
SnWriteNoWait ==
    /\ sn_pc = "export"
    /\ all_results_csv' = IF all_findings_list # <<>>
                          THEN Written(all_findings_list) ELSE all_results_csv
    /\ sn_pc' = "done"
    /\ UNCHANGED <<sn_n, sn_scan, sn_collected, completed_projects, sn_export,
                   sn_issues, sn_fetched, all_findings_list, all_findings_lock>>
    /\ UNCHANGED notSn

\* phase 2 has ended; step 3 writes all_results.csv when there are findings
SnWrite ==
    /\ sn_pc = "export"
    /\ \A i \in SonarProjects : sn_export[i] \in {"none", "done"}
    /\ all_results_csv' = IF all_findings_list # <<>>
                          THEN Written(all_findings_list) ELSE all_results_csv
    /\ sn_pc' = "done"
    /\ UNCHANGED <<sn_n, sn_scan, sn_collected, completed_projects, sn_export,
                   sn_issues, sn_fetched, all_findings_list, all_findings_lock>>
    /\ UNCHANGED notSn

SnNext ==
    \/ \E i \in SonarProjects : SnStartScan(i)
    \/ \E i \in SonarProjects, how \in ScanFinished : SnScanEnds(i, how)
    \/ \E i \in SonarProjects : SnCollect(i)
    \/ SnAbort
    \/ SnSubmitExports
    \/ \E i \in SonarProjects : SnStartExport(i)
    \/ \E i \in SonarProjects, k \in -1..MaxIssues : SnFetch(i, k)
    \/ \E i \in SonarProjects : SnAcquire(i)
    \/ \E i \in SonarProjects : SnAppend(i)
    \/ \E i \in SonarProjects : SnRelease(i)
    \/ SnWrite

(***************************************************************************)
(* github_spider.py: GitHubScraper.get_repositories_by_page_range, which   *)
(* calls search_repositories, which calls _make_request.  Time is in whole *)
(* seconds.  A response is its status code, the part of its text the code  *)
(* looks for, its X-RateLimit-Reset header (0 when absent: the default of  *)
(* headers.get) and the number of items of its body.  gh_asked and         *)
(* gh_returned are the history of the calls of search_repositories: the    *)
(* pages asked for and what the calls returned.                            *)
(***************************************************************************)
\* the last page a caller asks for
MaxPage == 2
\* the most items of one page of results
MaxItems == 2
\* the latest reset time the provider announces, and the latest start time
MaxReset == 2
\* the most responses that make _make_request loop again, per call
MaxAttempts == 2

RATE_LIMIT_TEXT == "rate limit exceeded"
HARD_LIMIT_TEXT == "Only the first 1000 search results are available"

Response(status, text, reset, items) ==
    [status |-> status, text |-> text, reset |-> reset, items |-> items]

Responses ==
    {Response(200, "", 0, k) : k \in 0..MaxItems}
        \cup {Response(403, RATE_LIMIT_TEXT, r, 0) : r \in 0..MaxReset}
        \cup {Response(403, "forbidden", 0, 0),
              Response(422, HARD_LIMIT_TEXT, 0, 0),
              Response(422, "validation failed", 0, 0),
              Response(404, "not found", 0, 0),
              Response(500, "server error", 0, 0),
              Response(202, "accepted", 0, 0)}

\* no response yet, and session.get raising in place of a response
NoResponse == Response(0, "", 0, 0)
NetworkError == Response(-1, "", 0, 0)

\* the return values of _make_request: response.json(), or None
NoneResult == [none |-> TRUE, items |-> 0]
Body(resp) == [none |-> FALSE, items |-> resp.items]

\* (a changed SleepTime: a fixed back-off that does not read the header)
SleepTimeFixed(reset_time, now) == 1

\* sleep_time = max(reset_time - time.time(), 0) + 1
SleepTime(reset_time, now) ==
    (IF reset_time - now > 0 THEN reset_time - now ELSE 0) + 1

\* response.raise_for_status() raises for the 4xx and 5xx codes
RaisesForStatus(status) == 400 <= status /\ status < 600

\* what one pass of the while loop of _make_request does with a response:
\* "return" the body, "sleep" and loop, return the "limit" None, "raise"
\* into the except clause that returns None, or "loop" again at once
Branch(resp) ==
    IF resp.status = 200 THEN "return"
    ELSE IF resp.status = 403 /\ resp.text = RATE_LIMIT_TEXT THEN "sleep"
    ELSE IF resp.status = 422 /\ resp.text = HARD_LIMIT_TEXT THEN "limit"
    ELSE IF RaisesForStatus(resp.status) THEN "raise"
    ELSE "loop"

GhOff ==
    /\ gh_pc = "off"
    /\ gh_start_page = 1
    /\ gh_end_page = 0
    /\ gh_page = 1
    /\ gh_req = [endpoint |-> "", page |-> 0]
    /\ gh_sent = [endpoint |-> "", page |-> 0]
    /\ gh_attempts = 0
    /\ gh_clock = 0
    /\ gh_resp = NoResponse
    /\ gh_result = NoneResult
    /\ all_repos = <<>>
    /\ max_page_reached = FALSE
    /\ gh_limit_seen = FALSE
    /\ gh_asked = <<>>
    /\ gh_returned = <<>>

GhInit ==
    /\ gh_pc = "page"
    /\ gh_start_page \in 1..MaxPage
    /\ gh_end_page \in 0..MaxPage
    /\ gh_page = gh_start_page
    /\ gh_req = [endpoint |-> "", page |-> 0]
    /\ gh_sent = [endpoint |-> "", page |-> 0]
    /\ gh_attempts = 0
    /\ gh_clock \in 0..MaxReset
    /\ gh_resp = NoResponse
    /\ gh_result = NoneResult
    /\ all_repos = <<>>
    /\ max_page_reached = FALSE
    /\ gh_limit_seen = FALSE
    /\ gh_asked = <<>>
    /\ gh_returned = <<>>

ghRange == <<gh_start_page, gh_end_page>>

\* one iteration of "for current_page in range(start_page, end_page + 1)"
\* up to the call: search_repositories builds the params of the page and
\* _make_request is entered
GhSearchPage ==
    /\ gh_pc = "page"
    /\ gh_page <= gh_end_page
    /\ gh_req' = [endpoint |-> "search/repositories", page |-> gh_page]
    /\ gh_attempts' = 0
    /\ gh_pc' = "request"
    /\ gh_asked' = Append(gh_asked, gh_page)
    /\ UNCHANGED <<ghRange, gh_page, gh_sent, gh_clock, gh_resp, gh_result,
                   all_repos, max_page_reached, gh_limit_seen, gh_returned>>
    /\ UNCHANGED notGh

\* one pass of "while True" of _make_request: session.get(url, params)
\* answers resp
GhResponse(resp) ==
    /\ gh_pc = "request"
    /\ resp \in Responses
    /\ Branch(resp) \in {"sleep", "loop"} => gh_attempts < MaxAttempts
    /\ gh_sent' = gh_req
    /\ gh_attempts' = gh_attempts + 1
    /\ gh_resp' = resp
    /\ gh_pc' = IF Branch(resp) \in {"sleep", "loop"} THEN "request" ELSE "returned"
    /\ gh_clock' = IF Branch(resp) = "sleep"
                   THEN gh_clock + SleepTime(resp.reset, gh_clock)
                   ELSE gh_clock
    /\ gh_result' = CASE Branch(resp) = "return" -> Body(resp)
                      [] Branch(resp) \in {"limit", "raise"} -> NoneResult
                      [] OTHER -> gh_result
    /\ gh_limit_seen' = (gh_limit_seen \/ Branch(resp) = "limit")
    /\ UNCHANGED <<ghRange, gh_page, gh_req, all_repos, max_page_reached,
                   gh_asked, gh_returned>>
    /\ UNCHANGED notGh

\* session.get raises (no connection): the except clause returns None
GhRequestRaises ==
    /\ gh_pc = "request"
    /\ gh_sent' = gh_req
    /\ gh_attempts' = gh_attempts + 1
    /\ gh_resp' = NetworkError
    /\ gh_result' = NoneResult
    /\ gh_pc' = "returned"
    /\ UNCHANGED <<ghRange, gh_page, gh_req, gh_clock, all_repos,
                   max_page_reached, gh_limit_seen, gh_asked, gh_returned>>
    /\ UNCHANGED notGh

PageItems(page, k) == [j \in 1..k |-> <<page, j>>]

\* (a changed GhPageResult: the loop does not stop at an empty page)
GhPageResultNoEmptyStop ==
    /\ gh_pc = "returned"
    /\ IF gh_result.none
       THEN /\ max_page_reached' = TRUE
            /\ gh_pc' = "done"
            /\ UNCHANGED <<all_repos, gh_page, gh_clock>>
       ELSE /\ all_repos' = all_repos \o PageItems(gh_page, gh_result.items)
            /\ UNCHANGED max_page_reached
            /\ gh_clock' = gh_clock + 1
            /\ gh_page' = gh_page + 1
            /\ gh_pc' = "page"
    /\ gh_returned' = Append(gh_returned, gh_result)
    /\ UNCHANGED <<ghRange, gh_req, gh_sent, gh_attempts, gh_resp, gh_result,
                   gh_limit_seen, gh_asked>>
    /\ UNCHANGED notGh

\* the rest of the iteration, with what search_repositories returned
GhPageResult ==
    /\ gh_pc = "returned"
    /\ IF gh_result.none
       THEN /\ max_page_reached' = TRUE
            /\ gh_pc' = "done"
            /\ UNCHANGED <<all_repos, gh_page, gh_clock>>
       ELSE /\ all_repos' = all_repos \o PageItems(gh_page, gh_result.items)
            /\ UNCHANGED max_page_reached
            /\ IF gh_result.items = 0
               THEN /\ gh_pc' = "done"
                    /\ UNCHANGED <<gh_page, gh_clock>>
               ELSE /\ gh_clock' = gh_clock + 1
                    /\ gh_page' = gh_page + 1
                    /\ gh_pc' = "page"
    /\ gh_returned' = Append(gh_returned, gh_result)
    /\ UNCHANGED <<ghRange, gh_req, gh_sent, gh_attempts, gh_resp, gh_result,
                   gh_limit_seen, gh_asked>>
    /\ UNCHANGED notGh

\* the range is exhausted: all_repos is returned
GhRangeEnds ==
    /\ gh_pc = "page"
    /\ gh_page > gh_end_page
    /\ gh_pc' = "done"
    /\ UNCHANGED <<ghRange, gh_page, gh_req, gh_sent, gh_attempts, gh_clock,
                   gh_resp, gh_result, all_repos, max_page_reached, gh_limit_seen,
                   gh_asked, gh_returned>>
    /\ UNCHANGED notGh

GhNext ==
    \/ GhSearchPage
    \/ \E resp \in Responses : GhResponse(resp)
    \/ GhRequestRaises
    \/ GhPageResult
    \/ GhRangeEnds

(***************************************************************************)
(* SonarResultsGenerator.py: parse_time and format_time.  A string is the  *)
(* sequence of its characters.  parse_time is applied to a debt string and *)
(* format_time to a total of minutes, as summarize_results does, and the   *)
(* formatted text is parsed again.                                         *)
(***************************************************************************)
\* the largest total of minutes format_time is given directly
MaxMinutes == 150
\* the most digits of a component of a debt string
MaxDigits == 2

DigitChars == <<"0", "1", "2", "3", "4", "5", "6", "7", "8", "9">>
IsDigit(c) == \E d \in 1..10 : DigitChars[d] = c
DigitVal(c) == (CHOOSE d \in 1..10 : DigitChars[d] = c) - 1

\* str(n) of an integer n >= 0, as an f-string renders it
RECURSIVE ToStr(_)
ToStr(n) ==
    IF n < 10 THEN <<DigitChars[n + 1]>>
    ELSE ToStr(n \div 10) \o <<DigitChars[(n % 10) + 1]>>

\* int(ds) of a string of digits (leading zeros allowed); 0 for no digits
RECURSIVE ToInt(_)
ToInt(ds) ==
    IF ds = <<>> THEN 0
    ELSE 10 * ToInt(SubSeq(ds, 1, Len(ds) - 1)) + DigitVal(ds[Len(ds)])

\* "pat in s"
Contains(s, pat) ==
    \E i \in 1..(Len(s) - Len(pat) + 1) : SubSeq(s, i, i + Len(pat) - 1) = pat

\* the places (i, j) where (\d+)suffix matches s with the group on s[i..j]
GroupMatches(s, suffix) ==
    {ij \in (1..Len(s)) \X (1..Len(s)) :
        /\ ij[1] <= ij[2]
        /\ \A k \in ij[1]..ij[2] : IsDigit(s[k])
        /\ ij[2] + Len(suffix) <= Len(s)
        /\ SubSeq(s, ij[2] + 1, ij[2] + Len(suffix)) = suffix}

\* re.search(r'(\d+)suffix', s).group(1): the leftmost match, its group
\* as long as it can be; <<>> when re.search returns None
SearchGroup(s, suffix) ==
    IF GroupMatches(s, suffix) = {} THEN <<>>
    ELSE LET i == CHOOSE i \in 1..Len(s) :
                      /\ \E j \in 1..Len(s) : <<i, j>> \in GroupMatches(s, suffix)
                      /\ \A ij \in GroupMatches(s, suffix) : i <= ij[1]
             j == CHOOSE j \in 1..Len(s) :
                      /\ <<i, j>> \in GroupMatches(s, suffix)
                      /\ \A ij \in GroupMatches(s, suffix) : ij[1] = i => ij[2] <= j
         IN  SubSeq(s, i, j)

H_SUFFIX == <<"h">>
MIN_SUFFIX == <<"m", "i", "n">>

\* (a changed parse_time: the 'min' test written with "elif", so that the
\* minutes are read only when there is no 'h')
ParseTimeElif(debt_str) ==
    IF debt_str = <<>> THEN 0
    ELSE IF Contains(debt_str, H_SUFFIX)
         THEN ToInt(SearchGroup(debt_str, H_SUFFIX)) * 60
         ELSE IF Contains(debt_str, MIN_SUFFIX)
              THEN ToInt(SearchGroup(debt_str, MIN_SUFFIX))
              ELSE 0

\* parse_time: hours and minutes stay 0 when the letter is not in the
\* string or the search finds nothing
parse_time(debt_str) ==
    IF debt_str = <<>> THEN 0
    ELSE LET hours == IF Contains(debt_str, H_SUFFIX)
                      THEN ToInt(SearchGroup(debt_str, H_SUFFIX)) ELSE 0
             minutes == IF Contains(debt_str, MIN_SUFFIX)
                        THEN ToInt(SearchGroup(debt_str, MIN_SUFFIX)) ELSE 0
         IN  hours * 60 + minutes

\* (a changed format_time: the minutes are left out whenever there are
\* hours)
FormatTimeDropsMinutes(total_minutes) ==
    IF total_minutes = 0 THEN <<"0">> \o MIN_SUFFIX
    ELSE IF total_minutes \div 60 > 0 THEN ToStr(total_minutes \div 60) \o H_SUFFIX
    ELSE ToStr(total_minutes % 60) \o MIN_SUFFIX

\* format_time
format_time(total_minutes) ==
    IF total_minutes = 0 THEN <<"0">> \o MIN_SUFFIX
    ELSE LET hours == total_minutes \div 60
             minutes == total_minutes % 60
         IN  IF hours > 0 /\ minutes > 0
             THEN ToStr(hours) \o H_SUFFIX \o ToStr(minutes) \o MIN_SUFFIX
             ELSE IF hours > 0 THEN ToStr(hours) \o H_SUFFIX
             ELSE ToStr(minutes) \o MIN_SUFFIX

\* the digits the components of the debt strings are written with
TmDigits == {"0", "1", "5", "9"}
\* the components: one to MaxDigits digits, or <<>> for no component
Components ==
    {<<>>} \cup UNION {[1..n -> TmDigits] : n \in 1..MaxDigits}
\* the debt string "<h>h<m>min", "<h>h", "<m>min" or ""
DebtString(h, m) ==
    (IF h # <<>> THEN h \o H_SUFFIX ELSE <<>>)
        \o (IF m # <<>> THEN m \o MIN_SUFFIX ELSE <<>>)

TmOff ==
    /\ tm_pc = "off"
    /\ tm_kind = "none"
    /\ tm_h = <<>>
    /\ tm_m = <<>>
    /\ tm_debt = <<>>
    /\ tm_total = 0
    /\ tm_text = <<>>
    /\ tm_back = 0

\* the input is a debt string to parse, or a total of minutes to format
TmInit ==
    /\ tm_text = <<>>
    /\ tm_back = 0
    /\ \/ /\ tm_kind = "debt"
          /\ tm_pc = "parse"
          /\ tm_h \in Components
          /\ tm_m \in Components
          /\ tm_debt = DebtString(tm_h, tm_m)
          /\ tm_total = 0
       \/ /\ tm_kind = "minutes"
          /\ tm_pc = "format"
          /\ tm_h = <<>>
          /\ tm_m = <<>>
          /\ tm_debt = <<>>
          /\ tm_total \in 0..MaxMinutes

\* parse_time(debt)
TmParse ==
    /\ tm_pc = "parse"
    /\ tm_total' = parse_time(tm_debt)
    /\ tm_pc' = "format"
    /\ UNCHANGED <<tm_kind, tm_h, tm_m, tm_debt, tm_text, tm_back>>
    /\ UNCHANGED notTm

\* format_time(total)
TmFormat ==
    /\ tm_pc = "format"
    /\ tm_text' = format_time(tm_total)
    /\ tm_pc' = "reparse"
    /\ UNCHANGED <<tm_kind, tm_h, tm_m, tm_debt, tm_total, tm_back>>
    /\ UNCHANGED notTm

\* parse_time of the formatted text
TmReparse ==
    /\ tm_pc = "reparse"
    /\ tm_back' = parse_time(tm_text)
    /\ tm_pc' = "done"
    /\ UNCHANGED <<tm_kind, tm_h, tm_m, tm_debt, tm_total, tm_text>>
    /\ UNCHANGED notTm

TmNext ==
    \/ TmParse
    \/ TmFormat
    \/ TmReparse

(***************************************************************************)
(* revert_repos.py: revert_repos_to_date.  A repository is its index in    *)
(* the list repos.  A branch name, like every text that is split at '/',   *)
(* is the sequence of its '/'-separated parts: release/v2 is               *)
(* <<"release", "v2">>, and the empty text is <<>>.                        *)
(***************************************************************************)
\* the most git repositories of the repos folder
NumRepos == 2

\* for branch in ['main', 'master']
CommonBranches == <<(<<"main">>), (<<"master">>)>>
\* the local branches a repository can have
LocalBranchNames == {<<"main">>, <<"master">>, <<"dev">>}
\* the branches origin/HEAD can name
RemoteBranchNames == LocalBranchNames \cup {<<"release", "v2">>}

\* what 'git symbolic-ref refs/remotes/origin/HEAD' answers
SymbolicRef(branch) ==
    [returncode |-> 0, stdout |-> <<"refs", "remotes", "origin">> \o branch]
SymbolicRefFails == [returncode |-> 1, stdout |-> <<>>]
RemoteHeads == {SymbolicRef(b) : b \in RemoteBranchNames} \cup {SymbolicRefFails}

\* result.stdout.strip().split('/')[-1]
LastPart(text) == IF text = <<>> THEN <<>> ELSE <<text[Len(text)]>>

\* a repository as the run finds it: what origin/HEAD answers, the local
\* branches, the checked-out branch (<<>> with a detached HEAD) and whether
\* a commit at or before the target date exists
RepoStates ==
    { [remote |-> r, locals |-> l, head0 |-> h, head |-> h, old |-> o,
       tree |-> "tip", cmds |-> <<>>, found |-> FALSE] :
        r \in RemoteHeads, l \in SUBSET LocalBranchNames,
        h \in LocalBranchNames \cup {<<>>}, o \in BOOLEAN }
NoRepo ==
    [remote |-> SymbolicRefFails, locals |-> {}, head0 |-> <<>>, head |-> <<>>,
     old |-> FALSE, tree |-> "tip", cmds |-> <<>>, found |-> FALSE]

\* default_branch: bound to a name, or left unbound by an exception
Resolved(branch) == [bound |-> TRUE, name |-> branch]
Unbound == [bound |-> FALSE, name |-> <<>>]

\* the first of ['main', 'master'] that 'git branch --list' prints, from
\* position k of the list on; <<>> when the for loop runs into its else
RECURSIVE FirstCommon(_, _)
FirstCommon(locals, k) ==
    IF k > Len(CommonBranches) THEN <<>>
    ELSE IF CommonBranches[k] \in locals THEN CommonBranches[k]
    ELSE FirstCommon(locals, k + 1)

\* lines 47-76: default_branch; show_current_ok says whether
\* 'git branch --show-current' (run with check=True) exits with 0
DefaultBranch(repo, show_current_ok) ==
    IF repo.remote.returncode = 0 THEN Resolved(LastPart(repo.remote.stdout))
    ELSE IF FirstCommon(repo.locals, 1) # <<>>
         THEN Resolved(FirstCommon(repo.locals, 1))
    ELSE IF show_current_ok THEN Resolved(repo.head)
    ELSE Unbound

\* 'git checkout <branch>' can switch when the branch is a local one or
\* origin has a branch of that name
CanCheckout(repo, branch) ==
    \/ branch \in repo.locals
    \/ repo.remote.returncode = 0
       /\ repo.remote.stdout = SymbolicRef(branch).stdout

NO_COMMITS == "No commits found before target date"
ERROR_MESSAGE == "error_message"

RvOff ==
    /\ rv_pc = "off"
    /\ rv_n = 0
    /\ rv_idx = 1
    /\ rv_repo = NoRepo
    /\ rv_default = Unbound
    /\ failed_projects = <<>>
    /\ rv_done = <<>>
    /\ failed_log = NoFile

RvInit ==
    /\ rv_pc = "loop"
    /\ rv_n \in 0..NumRepos
    /\ rv_idx = 1
    /\ rv_repo = NoRepo
    /\ rv_default = Unbound
    /\ failed_projects = <<>>
    /\ rv_done = <<>>
    /\ failed_log = NoFile

\* what is kept of a repository when its processing has ended
RvSummary(repo) ==
    [old |-> repo.old, moved |-> repo.head # repo.head0,
     tree |-> repo.tree, cmds |-> repo.cmds, found |-> repo.found]

\* the end of one pass of the for loop (the finally clause included)
RvEndRepo(repo, failures) ==
    /\ rv_done' = Append(rv_done, RvSummary(repo))
    /\ failed_projects' = failed_projects \o failures
    /\ rv_repo' = NoRepo
    /\ rv_idx' = rv_idx + 1
    /\ rv_pc' = "loop"

\* the handler of CalledProcessError calls e.stderr.decode: stderr is a
\* str when the command was run with text=True, as 'git rev-list' and
\* 'git show' are, and a str has no decode, so that a command that fails
\* with a message on stderr makes the handler raise AttributeError, which no
\* clause catches: the finally clause runs and the exception leaves the
\* loop and the function
RvEscapes(repo) ==
    /\ rv_done' = Append(rv_done, RvSummary(repo))
    /\ rv_repo' = NoRepo
    /\ rv_pc' = "raised"
    /\ UNCHANGED <<rv_idx, failed_projects>>

\* no repository in the folder (or no folder): sys.exit(1)
RvExit ==
    /\ rv_pc = "loop"
    /\ rv_n = 0
    /\ rv_pc' = "exit"
    /\ UNCHANGED <<rv_n, rv_idx, rv_repo, rv_default, failed_projects, rv_done,
                   failed_log>>
    /\ UNCHANGED notRv

\* os.chdir(repo_path) succeeds
RvEnter(repo) ==
    /\ rv_pc = "loop"
    /\ rv_n > 0
    /\ rv_idx <= rv_n
    /\ repo.head \in repo.locals \cup {<<>>}
    /\ rv_repo' = repo
    /\ rv_pc' = "entered"
    /\ UNCHANGED <<rv_n, rv_idx, rv_default, failed_projects, rv_done,
                   failed_log>>
    /\ UNCHANGED notRv

\* os.chdir(repo_path) raises: except Exception
RvChdirRaises(repo) ==
    /\ rv_pc = "loop"
    /\ rv_n > 0
    /\ rv_idx <= rv_n
    /\ repo.head \in repo.locals \cup {<<>>}
    /\ RvEndRepo(repo, <<(<<rv_idx, ERROR_MESSAGE>>)>>)
    /\ UNCHANGED <<rv_n, rv_default, failed_log>>
    /\ UNCHANGED notRv

\* the inner try, lines 45-84: the default branch and its checkout, which
\* is run with check=False and either switches or leaves HEAD where it is
RvResolve(show_current_ok, switched) ==
    /\ rv_pc = "entered"
    /\ LET branch == DefaultBranch(rv_repo, show_current_ok) IN
       /\ rv_default' = branch
       /\ switched => branch.bound /\ CanCheckout(rv_repo, branch.name)
       /\ rv_repo' =
            IF ~branch.bound THEN rv_repo
            ELSE [rv_repo EXCEPT
                    !.cmds = Append(@, "checkout"),
                    !.head = IF switched THEN branch.name ELSE @,
                    !.locals = IF switched THEN @ \cup {branch.name} ELSE @]
    /\ rv_pc' = "resolved"
    /\ UNCHANGED <<rv_n, rv_idx, failed_projects, rv_done, failed_log>>
    /\ UNCHANGED notRv

\* lines 86-99 and 114-124: 'git rev-list -n 1 --before=... --all' prints a
\* commit hash, prints nothing, or exits with an error (check=True), with
\* a message on stderr ("raises") or without one ("raises_quiet": str(e)
\* is the error message)
RvFindCommit(outcome) ==
    /\ rv_pc = "resolved"
    /\ outcome = "hash" => rv_repo.old
    /\ outcome = "empty" => ~rv_repo.old
    /\ IF outcome = "hash"
       THEN /\ rv_pc' = "found"
            /\ rv_repo' = [rv_repo EXCEPT !.found = TRUE]
            /\ UNCHANGED <<rv_idx, failed_projects, rv_done>>
       ELSE IF outcome = "raises" THEN RvEscapes(rv_repo)
       ELSE /\ RvEndRepo(rv_repo,
                   <<(<<rv_idx, IF outcome = "empty" THEN NO_COMMITS
                                ELSE ERROR_MESSAGE>>)>>)
    /\ UNCHANGED <<rv_n, rv_default, failed_log>>
    /\ UNCHANGED notRv

\* lines 101-124: 'git show' (text=True) and 'git reset --hard <hash>'
\* (stderr in bytes, which decode), both with check=True
RvReset(outcome) ==
    /\ rv_pc = "found"
    /\ LET issued == IF outcome \in {"show_raises", "show_raises_quiet"}
                     THEN rv_repo
                     ELSE [rv_repo EXCEPT !.cmds = Append(@, "reset")]
           after == IF outcome = "ok" THEN [issued EXCEPT !.tree = "old"]
                    ELSE issued
       IN IF outcome = "show_raises" THEN RvEscapes(after)
          ELSE RvEndRepo(after, IF outcome = "ok" THEN <<>>
                                ELSE <<(<<rv_idx, ERROR_MESSAGE>>)>>)
    /\ UNCHANGED <<rv_n, rv_default, failed_log>>
    /\ UNCHANGED notRv

\* lines 126-138: the log of the failed projects, when there are any
RvWriteLog ==
    /\ rv_pc = "loop"
    /\ rv_n > 0
    /\ rv_idx > rv_n
    /\ failed_log' = IF failed_projects # <<>> THEN Written(failed_projects)
                     ELSE failed_log
    /\ rv_pc' = "done"
    /\ UNCHANGED <<rv_n, rv_idx, rv_repo, rv_default, failed_projects, rv_done>>
    /\ UNCHANGED notRv

RvNext ==
    \/ RvExit
    \/ \E repo \in RepoStates : RvEnter(repo)
    \/ \E repo \in RepoStates : RvChdirRaises(repo)
    \/ \E show_current_ok \in BOOLEAN, switched \in BOOLEAN :
          RvResolve(show_current_ok, switched)
    \/ \E outcome \in {"hash", "empty", "raises", "raises_quiet"} :
          RvFindCommit(outcome)
    \/ \E outcome \in {"ok", "show_raises", "show_raises_quiet", "reset_raises"} :
          RvReset(outcome)
    \/ RvWriteLog

(***************************************************************************)
(* get_contributors.py: process_csv_with_specific_columns with the         *)
(* GraphQL count and its REST fallback.  A URL is what urlparse makes of   *)
(* it: the host and the '/'-separated parts of the path.                   *)
(***************************************************************************)
\* the most data rows of the input CSV
NumCsvRows == 2
\* the largest totalCount of a GraphQL answer
MaxCount == 2
\* per_page of the REST requests (100 in the code, scaled down)
PerPage == 2
\* the most pages the REST API answers with a full page
MaxRestPages == 2

\* Python's None where a text can stand
PyNone == "<None>"
Truthy(text) == text \notin {PyNone, ""}

Url(netloc, path) == [none |-> FALSE, netloc |-> netloc, path |-> path]
\* row.get(url_column, '') of a row that ends before the URL column:
\* csv.DictReader fills the missing field with None
NoneUrl == [none |-> TRUE, netloc |-> "", path |-> <<>>]
EmptyUrl == Url("", <<>>)
\* the values of the URL column
Urls == {
    EmptyUrl,
    Url("github.com", <<"a", "b">>),
    Url("github.com", <<"a">>),
    Url("github.com", <<>>),
    Url("github.com", <<"a", "", "b">>),
    Url("gitlab.com", <<"a", "b">>),
    Url("www.github.com", <<"a", "b">>),
    Url("", <<"github.com", "a", "b">>) }

\* 'github.com' in html_url
GithubTexts == {"github.com", "www.github.com"}
ContainsGithubCom(url) ==
    \/ url.netloc \in GithubTexts
    \/ \E k \in DOMAIN url.path : url.path[k] \in GithubTexts

\* parsed_url.path.strip('/').split('/')
PathParts(url) == IF url.path = <<>> THEN <<"">> ELSE url.path

\* parse_github_url: (owner, repo), or (None, None)
parse_github_url(url) ==
    IF Len(PathParts(url)) < 2 \/ url.netloc # "github.com"
    THEN <<PyNone, PyNone>>
    ELSE <<PathParts(url)[1], PathParts(url)[2]>>

\* lines 180-182: the row is one to ask the API about
AsksApi(url) ==
    /\ url # EmptyUrl
    /\ ContainsGithubCom(url)
    /\ Truthy(parse_github_url(url)[1])
    /\ Truthy(parse_github_url(url)[2])

\* what the GraphQL request comes to: the request or the reading of its
\* answer raises, a status other than 200, a body with 'errors', a body
\* whose repository is null, a body with a totalCount
GraphqlAnswers ==
    {[kind |-> k, totalCount |-> 0] :
        k \in {"raises", "status", "errors", "no_repository"}}
    \cup {[kind |-> "count", totalCount |-> c] : c \in 0..MaxCount}
NoAnswer == [kind |-> "none", totalCount |-> 0]

\* a call of get_repo_contributors_count_graphql: the row it is for, the
\* GraphQL answer, the calls of get_repo_contributors_count_rest, the
\* passes of its while loop and what the last of the calls returned, the
\* value returned (-1: not yet)
NewCall(row) ==
    [row |-> row, graphql |-> NoAnswer, rest_calls |-> 0, rest_pages |-> <<>>,
     rest_count |-> 0, returned |-> -1]

\* a pass of the while loop of get_repo_contributors_count_rest: the page
\* asked for and what came of the request ("raises", "status": a status
\* other than 200, "page": a 200 with len contributors); headers_ok is
\* FALSE when reading the rate limit headers after a full page raised
RestPass(page, kind, len, headers_ok) ==
    [page |-> page, kind |-> kind,
     len |-> IF kind = "page" THEN len ELSE 0,
     headers_ok |-> (kind = "page" /\ len = PerPage) => headers_ok]

CtOff ==
    /\ ct_pc = "off"
    /\ ct_read = <<>>
    /\ processed_rows = <<>>
    /\ ct_call = NewCall(0)
    /\ ct_calls = <<>>
    /\ contributors_count = 0
    /\ ct_page = 1
    /\ ct_result = <<>>

CtInit ==
    /\ ct_pc = "rows"
    /\ ct_read = <<>>
    /\ processed_rows = <<>>
    /\ ct_call = NewCall(0)
    /\ ct_calls = <<>>
    /\ contributors_count = 0
    /\ ct_page = 1
    /\ ct_result = <<>>

NewRow(url, count) == [html_url |-> url, contributors_count |-> count]

\* open(csv_path) or the reading of the header raises: return [], []
CtOpenRaises ==
    /\ ct_pc = "rows"
    /\ ct_read = <<>>
    /\ ct_pc' = "raised"
    /\ ct_result' = <<>>
    /\ UNCHANGED <<ct_read, processed_rows, ct_call, ct_calls,
                   contributors_count, ct_page>>
    /\ UNCHANGED notCt

\* lines 175-198 for one row, up to the call of
\* get_repo_contributors_count_graphql when there is one; a None in the URL
\* column makes .strip() raise, and the except clause returns [], []
CtReadRow(url) ==
    /\ ct_pc = "rows"
    /\ Len(ct_read) < NumCsvRows
    /\ ct_read' = Append(ct_read, url)
    /\ IF url.none
       THEN /\ ct_pc' = "raised"
            /\ ct_result' = <<>>
            /\ UNCHANGED <<processed_rows, ct_call>>
       ELSE IF AsksApi(url)
       THEN /\ ct_pc' = "graphql"
            /\ ct_call' = NewCall(Len(ct_read) + 1)
            /\ UNCHANGED <<processed_rows, ct_result>>
       ELSE /\ processed_rows' = Append(processed_rows, NewRow(url, 0))
            /\ UNCHANGED <<ct_pc, ct_call, ct_result>>
    /\ UNCHANGED <<ct_calls, contributors_count, ct_page>>
    /\ UNCHANGED notCt

\* get_repo_contributors_count_graphql returns count: lines 187-198
CtReturnCount(call, count) ==
    /\ ct_calls' = Append(ct_calls, [call EXCEPT !.returned = count])
    /\ ct_call' = NewCall(0)
    /\ processed_rows' =
         Append(processed_rows, NewRow(ct_read[Len(ct_read)], count))
    /\ ct_pc' = "rows"

\* (a changed CtGraphql: an exception gives 0 without the REST fallback)
CtGraphqlNoFallbackOnRaise(answer) ==
    /\ ct_pc = "graphql"
    /\ LET call == [ct_call EXCEPT !.graphql = answer] IN
       IF answer.kind \in {"status", "errors"}
       THEN /\ ct_pc' = "rest"
            /\ ct_call' = [call EXCEPT !.rest_calls = @ + 1]
            /\ contributors_count' = 0
            /\ ct_page' = 1
            /\ UNCHANGED <<processed_rows, ct_calls>>
       ELSE /\ CtReturnCount(call, answer.totalCount)
            /\ UNCHANGED <<contributors_count, ct_page>>
    /\ UNCHANGED <<ct_read, ct_result>>
    /\ UNCHANGED notCt

\* get_repo_contributors_count_graphql, lines 52-80: the answer's count, or
\* the call of get_repo_contributors_count_rest (lines 94-104 of it)
CtGraphql(answer) ==
    /\ ct_pc = "graphql"
    /\ LET call == [ct_call EXCEPT !.graphql = answer] IN
       IF answer.kind \in {"raises", "status", "errors"}
       THEN /\ ct_pc' = "rest"
            /\ ct_call' = [call EXCEPT !.rest_calls = @ + 1]
            /\ contributors_count' = 0
            /\ ct_page' = 1
            /\ UNCHANGED <<processed_rows, ct_calls>>
       ELSE /\ CtReturnCount(call, IF answer.kind = "count"
                                   THEN answer.totalCount ELSE 0)
            /\ UNCHANGED <<contributors_count, ct_page>>
    /\ UNCHANGED <<ct_read, ct_result>>
    /\ UNCHANGED notCt

\* get_repo_contributors_count_rest returns count to line 63, 75 or 80,
\* which returns it
CtRestReturns(call, count) ==
    /\ CtReturnCount([call EXCEPT !.rest_count = count], count)
    /\ contributors_count' = 0
    /\ ct_page' = 1

\* (a changed CtRestPage: a status other than 200 gives 0, not the count
\* so far)
CtRestPageStatusZero(kind, len, headers_ok) ==
    /\ ct_pc = "rest"
    /\ kind = "page" /\ len = PerPage => ct_page < MaxRestPages
    /\ LET call == [ct_call EXCEPT !.rest_pages =
                       Append(@, RestPass(ct_page, kind, len, headers_ok))] IN
       IF kind = "raises" THEN CtRestReturns(call, 0)
       ELSE IF kind = "status" THEN CtRestReturns(call, 0)
       ELSE IF len < PerPage THEN CtRestReturns(call, contributors_count + len)
       ELSE IF ~headers_ok THEN CtRestReturns(call, 0)
       ELSE /\ contributors_count' = contributors_count + len
            /\ ct_page' = ct_page + 1
            /\ ct_call' = call
            /\ UNCHANGED <<ct_pc, ct_calls, processed_rows>>
    /\ UNCHANGED <<ct_read, ct_result>>
    /\ UNCHANGED notCt

\* one pass of the while loop of get_repo_contributors_count_rest: the
\* request raises, is answered with a status other than 200, or with a
\* page of len contributors; after a full page the rate limit headers are
\* read, which raises when they are no numbers
CtRestPage(kind, len, headers_ok) ==
    /\ ct_pc = "rest"
    /\ kind = "page" /\ len = PerPage => ct_page < MaxRestPages
    /\ LET call == [ct_call EXCEPT !.rest_pages =
                       Append(@, RestPass(ct_page, kind, len, headers_ok))] IN
       IF kind = "raises" THEN CtRestReturns(call, 0)
       ELSE IF kind = "status" THEN CtRestReturns(call, contributors_count)
       ELSE IF len < PerPage THEN CtRestReturns(call, contributors_count + len)
       ELSE IF ~headers_ok THEN CtRestReturns(call, 0)
       ELSE /\ contributors_count' = contributors_count + len
            /\ ct_page' = ct_page + 1
            /\ ct_call' = call
            /\ UNCHANGED <<ct_pc, ct_calls, processed_rows>>
    /\ UNCHANGED <<ct_read, ct_result>>
    /\ UNCHANGED notCt

\* the reader has no more rows: return processed_rows, output_columns
CtEndOfFile ==
    /\ ct_pc = "rows"
    /\ ct_pc' = "returned"
    /\ ct_result' = processed_rows
    /\ UNCHANGED <<ct_read, processed_rows, ct_call, ct_calls,
                   contributors_count, ct_page>>
    /\ UNCHANGED notCt

CtNext ==
    \/ CtOpenRaises
    \/ \E url \in Urls \cup {NoneUrl} : CtReadRow(url)
    \/ \E answer \in GraphqlAnswers : CtGraphql(answer)
    \/ \E kind \in {"raises", "status", "page"}, len \in 0..PerPage,
          headers_ok \in BOOLEAN : CtRestPage(kind, len, headers_ok)
    \/ CtEndOfFile

(***************************************************************************)
(* SonarResultsGenerator.py: summarize_results.  all_results.csv is read   *)
(* with pandas.read_csv: a cell is a text, or NaN (a float) where the cell *)
(* is empty, and row.get gives its default only when the CSV has no such   *)
(* column.  The counters of the category and type columns are left out.    *)
(***************************************************************************)
\* the most findings of all_results.csv
NumFindings == 2
\* the most projects the findings are of
NumSmProjects == 2

\* a cell of the debt column
NaN == [type |-> "float", text |-> <<>>]
Str(text) == [type |-> "str", text |-> text]
\* debt cells: "5min", "1h5min", and two texts without a number
DebtCells ==
    { NaN, Str(DebtString(<<>>, <<"5">>)), Str(DebtString(<<"1">>, <<"5">>)),
      Str(H_SUFFIX \o MIN_SUFFIX), Str(<<"x">>) }

\* a cell of the impacts column: NaN, a text that is no JSON, the JSON text
\* of a list of impacts, the JSON text of a number
Impact(quality, severity) == [softwareQuality |-> quality, severity |-> severity]
ImpactLists ==
    { <<>>, <<Impact("MAINTAINABILITY", "HIGH")>>,
      <<Impact("SECURITY", "LOW"), Impact("RELIABILITY", "MEDIUM")>> }
ImpactsCells ==
    {[type |-> "float", json |-> "none", items |-> <<>>],
     [type |-> "str", json |-> "malformed", items |-> <<>>],
     [type |-> "str", json |-> "number", items |-> <<>>]}
    \cup {[type |-> "str", json |-> "list", items |-> l] : l \in ImpactLists}

\* row.get('debt', '') and row.get('impacts', '[]') when the column is not
\* in the CSV
DEFAULT_DEBT == Str(<<>>)
DEFAULT_IMPACTS == [type |-> "str", json |-> "list", items |-> <<>>]

\* the fields of aggregated_data[project] that the impacts and the debt
\* are counted in
QualityField(quality) ==
    IF quality = "MAINTAINABILITY" THEN "numberOfIssuesRelatedToMaintainability"
    ELSE IF quality = "RELIABILITY" THEN "numberOfIssuesRelatedToReliability"
    ELSE IF quality = "SECURITY" THEN "numberOfIssuesRelatedToSecurity"
    ELSE "none"
SeverityField(severity) ==
    IF severity = "LOW" THEN "numberOfIssuesWithLowSeverity"
    ELSE IF severity = "MEDIUM" THEN "numberOfIssuesWithMediumSeverity"
    ELSE IF severity = "HIGH" THEN "numberOfIssuesWithHighSeverity"
    ELSE "none"
DEBT_FIELD == "totalTimeNeededToRemoveDebts"
SmFields ==
    { QualityField(q) : q \in {"MAINTAINABILITY", "RELIABILITY", "SECURITY"} }
    \cup { SeverityField(s) : s \in {"LOW", "MEDIUM", "HIGH"} }
    \cup { DEBT_FIELD }

\* defaultdict(int)
NoCounts == [f \in SmFields |-> 0]
Add(data, field, n) ==
    IF field = "none" THEN data ELSE [data EXCEPT ![field] = @ + n]

\* lines 175-191 for the impacts of one finding, from position k on
RECURSIVE CountImpacts(_, _, _)
CountImpacts(data, impacts, k) ==
    IF k > Len(impacts) THEN data
    ELSE CountImpacts(
            Add(Add(data, QualityField(impacts[k].softwareQuality), 1),
                SeverityField(impacts[k].severity), 1),
            impacts, k + 1)

\* lines 169-173: impacts; iterating over it raises TypeError for NaN and
\* for a number
ImpactsRaise(cell) == cell.type = "float" \/ cell.json = "number"
ImpactsOf(cell) == IF cell.json = "list" THEN cell.items ELSE <<>>

\* parse_time(debt) raises TypeError for NaN: NaN is true, and 'h' in NaN
\* is no operation of a float
ParseTimeRaises(cell) == cell.type = "float"

SmOff ==
    /\ sm_pc = "off"
    /\ sm_columns = [debt |-> TRUE, impacts |-> TRUE]
    /\ sm_rows = <<>>
    /\ aggregated_data = <<>>
    /\ sm_projects = <<>>
    /\ summary_file = NoFile

\* main has written all_results.csv; summary.csv may be there from an
\* earlier run
SmInit ==
    /\ sm_pc = "rows"
    /\ sm_columns \in [debt : BOOLEAN, impacts : BOOLEAN]
    /\ sm_rows = <<>>
    /\ aggregated_data = <<>>
    /\ sm_projects = <<>>
    /\ summary_file = NoFile

\* the position of project in sm_projects (the insertion order of the
\* keys of aggregated_data), 0 when it is no key
KeyOf(project) ==
    IF \E k \in DOMAIN sm_projects : sm_projects[k] = project
    THEN CHOOSE k \in DOMAIN sm_projects : sm_projects[k] = project
    ELSE 0

\* os.path.exists(input_file) is false (return), or pd.read_csv raises
SmNoInput ==
    /\ sm_pc = "rows"
    /\ sm_rows = <<>>
    /\ sm_pc' = "failed"
    /\ UNCHANGED <<sm_columns, sm_rows, aggregated_data, sm_projects,
                   summary_file>>
    /\ UNCHANGED notSm

\* lines 146-195 for one row of the data frame; an exception leaves the
\* loop for the except clause of line 228
SmRow(project, debt_cell, impacts_cell) ==
    /\ sm_pc = "rows"
    /\ Len(sm_rows) < NumFindings
    /\ debt_cell = DEFAULT_DEBT \/ sm_columns.debt
    /\ ~sm_columns.debt => debt_cell = DEFAULT_DEBT
    /\ impacts_cell = DEFAULT_IMPACTS \/ sm_columns.impacts
    /\ ~sm_columns.impacts => impacts_cell = DEFAULT_IMPACTS
    /\ sm_rows' = Append(sm_rows, [project |-> project, debt |-> debt_cell,
                                   impacts |-> impacts_cell])
    /\ LET known == KeyOf(project) # 0
           key == IF known THEN KeyOf(project) ELSE Len(sm_projects) + 1
           data == IF known THEN aggregated_data[key] ELSE NoCounts
           counted == CountImpacts(data, ImpactsOf(impacts_cell), 1)
       IN
       IF ImpactsRaise(impacts_cell)
       THEN /\ sm_pc' = "failed"
            /\ UNCHANGED <<aggregated_data, sm_projects>>
       ELSE IF ParseTimeRaises(debt_cell)
       THEN \* the impact counts are in aggregated_data, the debt is not
            /\ sm_pc' = "failed"
            /\ sm_projects' = IF known THEN sm_projects
                              ELSE Append(sm_projects, project)
            /\ aggregated_data' =
                 IF known THEN [aggregated_data EXCEPT ![key] = counted]
                 ELSE Append(aggregated_data, counted)
       ELSE /\ sm_pc' = "rows"
            /\ sm_projects' = IF known THEN sm_projects
                              ELSE Append(sm_projects, project)
            /\ aggregated_data' =
                 LET summed == Add(counted, DEBT_FIELD,
                                   parse_time(debt_cell.text))
                 IN IF known THEN [aggregated_data EXCEPT ![key] = summed]
                    ELSE Append(aggregated_data, summed)
    /\ UNCHANGED <<sm_columns, summary_file>>
    /\ UNCHANGED notSm

\* the row of summary.csv for the k-th key of aggregated_data
SmSummaryRow(k) ==
    [project |-> sm_projects[k],
     counts |-> [aggregated_data[k] EXCEPT ![DEBT_FIELD] = 0],
     totalTimeNeededToRemoveDebts |-> format_time(aggregated_data[k][DEBT_FIELD])]

\* lines 198-227: summary.csv with the header and a row for every project
SmWrite ==
    /\ sm_pc = "rows"
    /\ sm_rows # <<>>
    /\ summary_file' =
         Written([k \in DOMAIN sm_projects |-> SmSummaryRow(k)])
    /\ sm_pc' = "done"
    /\ UNCHANGED <<sm_columns, sm_rows, aggregated_data, sm_projects>>
    /\ UNCHANGED notSm

SmNext ==
    \/ SmNoInput
    \/ \E project \in 1..NumSmProjects, debt_cell \in DebtCells \cup {DEFAULT_DEBT},
          impacts_cell \in ImpactsCells : SmRow(project, debt_cell, impacts_cell)
    \/ SmWrite

(***************************************************************************)
(* github_csv_filter.py: main, load_csv, filter_repositories, save_to_csv. *)
(* A field of a row of csv.DictReader is a text (a sequence of             *)
(* characters), None where the row ends before the column, and not there   *)
(* at all when the CSV has no such column: repo.get then gives its         *)
(* default.                                                                *)
(***************************************************************************)
\* the most data rows of the input CSV
NumFilterRows == 2
\* the largest of the --min-... arguments
MaxMin == 1

Text(text) == [type |-> "str", text |-> text]
NoneCell == [type |-> "none", text |-> <<>>]
\* repo.get('stargazers_count', 0): the default, the integer 0
DEFAULT_COUNT == [type |-> "int", text |-> <<"0">>]
\* repo.get('topics', '[]')
DEFAULT_TOPICS == Text(<<"[", "]">>)

\* the cells of the two count columns: no cell, "", "abc", "0", "5"
CountCells ==
    { NoneCell, Text(<<>>), Text(<<"a", "b", "c">>), Text(<<"0">>),
      Text(<<"5">>) }
\* the cells of the topics column: no cell, "", "[]", "['a']",
\* "['a', 'b']"
TopicsCells ==
    { NoneCell, Text(<<>>), Text(<<"[", "]">>),
      Text(<<"[", "'", "a", "'", "]">>),
      Text(<<"[", "'", "a", "'", ",", " ", "'", "b", "'", "]">>) }

\* int(x) of these cells raises ValueError for a text that is not a
\* sequence of digits, and TypeError for None
IsIntText(text) == text # <<>> /\ \A k \in DOMAIN text : IsDigit(text[k])
IntRaises(cell) ==
    \/ cell.type = "none"
    \/ cell.type = "str" /\ ~IsIntText(cell.text)
PyInt(cell) == ToInt(cell.text)

\* text.strip('[]')
RECURSIVE StripBrackets(_)
StripBrackets(text) ==
    IF text = <<>> THEN <<>>
    ELSE IF Head(text) \in {"[", "]"} THEN StripBrackets(Tail(text))
    ELSE IF text[Len(text)] \in {"[", "]"}
         THEN StripBrackets(SubSeq(text, 1, Len(text) - 1))
    ELSE text

\* .replace("'", "").replace('"', '')
IsNoQuote(char) == char \notin {"'", "\""}
Unquoted(text) == SelectSeq(text, IsNoQuote)

\* len([t.strip() for t in text.split(',') if t.strip()]): the parts
\* between the commas, from position k on, that are not blank; in_part
\* says whether the part at hand has a character that is no blank
RECURSIVE CountParts(_, _, _)
CountParts(text, k, in_part) ==
    IF k > Len(text) THEN (IF in_part THEN 1 ELSE 0)
    ELSE IF text[k] = ","
         THEN (IF in_part THEN 1 ELSE 0) + CountParts(text, k + 1, FALSE)
    ELSE CountParts(text, k + 1, in_part \/ text[k] # " ")

\* lines 66-74: topic_count; the strip of None raises, and the except
\* clause gives 0
TopicCount(cell) ==
    IF cell.type = "none" THEN 0
    ELSE CountParts(Unquoted(StripBrackets(cell.text)), 1, FALSE)

Mins == 0..MaxMin

FlOff ==
    /\ fl_pc = "off"
    /\ fl_columns = [stars |-> TRUE, issues |-> TRUE, topics |-> TRUE]
    /\ fl_args = [min_stars |-> 0, min_open_issues |-> 0, min_topics |-> 0]
    /\ repositories = <<>>
    /\ fl_idx = 1
    /\ filtered_repos = <<>>
    /\ filtered_csv = NoFile
    /\ fl_return = -1

\* the arguments of the command line are parsed
FlInit ==
    /\ fl_pc = "load"
    /\ fl_columns \in [stars : BOOLEAN, issues : BOOLEAN, topics : BOOLEAN]
    /\ fl_args \in [min_stars : Mins, min_open_issues : Mins, min_topics : Mins]
    /\ repositories = <<>>
    /\ fl_idx = 1
    /\ filtered_repos = <<>>
    /\ filtered_csv = NoFile
    /\ fl_return = -1

\* the rows csv.DictReader can give: a column that the CSV does not have
\* is in no row, and repo.get gives the default
FilterRows ==
    { [stars |-> s, issues |-> i, topics |-> t] :
        s \in CountCells \cup {DEFAULT_COUNT},
        i \in (CountCells \ {Text(<<"a", "b", "c">>)}) \cup {DEFAULT_COUNT},
        t \in TopicsCells \cup {DEFAULT_TOPICS} }
FitsColumns(row) ==
    /\ fl_columns.stars <=> row.stars # DEFAULT_COUNT
    /\ fl_columns.issues <=> row.issues # DEFAULT_COUNT
    /\ fl_columns.topics \/ row.topics = DEFAULT_TOPICS

\* load_csv raises (the file cannot be opened or read): main returns 1
FlLoadRaises ==
    /\ fl_pc = "load"
    /\ repositories = <<>>
    /\ fl_pc' = "done"
    /\ fl_return' = 1
    /\ UNCHANGED <<fl_columns, fl_args, repositories, fl_idx, filtered_repos,
                   filtered_csv>>
    /\ UNCHANGED notFl

\* list(reader) takes the next row
FlReadRow(row) ==
    /\ fl_pc = "load"
    /\ Len(repositories) < NumFilterRows
    /\ FitsColumns(row)
    /\ repositories' = Append(repositories, row)
    /\ UNCHANGED <<fl_pc, fl_columns, fl_args, fl_idx, filtered_repos,
                   filtered_csv, fl_return>>
    /\ UNCHANGED notFl

\* load_csv returns; filter_repositories starts
FlLoaded ==
    /\ fl_pc = "load"
    /\ fl_pc' = "filter"
    /\ UNCHANGED <<fl_columns, fl_args, repositories, fl_idx, filtered_repos,
                   filtered_csv, fl_return>>
    /\ UNCHANGED notFl

\* lines 60-80 for one row; an exception of int() leaves
\* filter_repositories and is caught by main, which returns 1
FlFilterRow ==
    /\ fl_pc = "filter"
    /\ fl_idx <= Len(repositories)
    /\ LET repo == repositories[fl_idx] IN
       IF IntRaises(repo.stars) \/ IntRaises(repo.issues)
       THEN /\ fl_pc' = "done"
            /\ fl_return' = 1
            /\ UNCHANGED <<fl_idx, filtered_repos>>
       ELSE /\ filtered_repos' =
                 IF /\ PyInt(repo.stars) >= fl_args.min_stars
                    /\ PyInt(repo.issues) >= fl_args.min_open_issues
                    /\ TopicCount(repo.topics) >= fl_args.min_topics
                 THEN Append(filtered_repos, repo) ELSE filtered_repos
            /\ fl_idx' = fl_idx + 1
            /\ UNCHANGED <<fl_pc, fl_return>>
    /\ UNCHANGED <<fl_columns, fl_args, repositories, filtered_csv>>
    /\ UNCHANGED notFl

\* filter_repositories returns; save_to_csv writes the rows when there are
\* any (save_ok: the output file can be written); main returns 0, or 1
\* when save_to_csv raised
FlSave(save_ok) ==
    /\ fl_pc = "filter"
    /\ fl_idx > Len(repositories)
    /\ fl_pc' = "done"
    /\ IF filtered_repos = <<>>
       THEN fl_return' = 0 /\ UNCHANGED filtered_csv
       ELSE IF save_ok
       THEN fl_return' = 0 /\ filtered_csv' = Written(filtered_repos)
       ELSE fl_return' = 1 /\ UNCHANGED filtered_csv
    /\ UNCHANGED <<fl_columns, fl_args, repositories, fl_idx, filtered_repos>>
    /\ UNCHANGED notFl

FlNext ==
    \/ FlLoadRaises
    \/ \E row \in FilterRows : FlReadRow(row)
    \/ FlLoaded
    \/ FlFilterRow
    \/ \E save_ok \in BOOLEAN : FlSave(save_ok)

(***************************************************************************)
(* The CSV writers: save_results_to_csv of get_contributors.py and         *)
(* IssueResolutionAnalyzer._save_to_csv of rq3_2script.py.  A row is a     *)
(* dict: its keys in insertion order and the value at each key.  A file is *)
(* the sequence of its lines, a line the sequence of its fields.           *)
(***************************************************************************)
\* the most rows handed to a writer
MaxRows == 2

SAVE_RESULTS == "save_results_to_csv"
SAVE_TO_CSV == "_save_to_csv"

\* output_columns of process_csv_with_specific_columns (two of the four
\* required columns stand for them all)
OUTPUT_COLUMNS == <<"html_url", "stargazers_count", "contributors_count">>
\* the keys of new_row: the required columns that the input CSV has, and
\* contributors_count
NewRowKeys == { OUTPUT_COLUMNS, <<"html_url", "contributors_count">> }
\* the keys of the dicts of all_issues and of summary_results (two of the
\* keys stand for them all)
IssueKeys == { <<"repository", "issue_number">>,
               <<"repository", "issues_analyzed">> }
CsvValues == {"x", "y"}

Range(seq) == {seq[k] : k \in DOMAIN seq}
\* the dicts with the keys keys
Dicts(keys) == {[keys |-> keys, at |-> f] : f \in [Range(keys) -> CsvValues]}
\* the lists of 'from' to MaxRows dicts with the keys keys
RowLists(keys, from) ==
    UNION {[1..n -> Dicts(keys)] : n \in from..MaxRows}

\* csv.DictWriter: the line of a row, with '' where the row has no such
\* key; a key of the row that is no column makes writerows raise ValueError
Line(row, columns) ==
    [k \in DOMAIN columns |->
        IF columns[k] \in Range(row.keys) THEN row.at[columns[k]] ELSE ""]
HasExtraKey(row, columns) == \E key \in Range(row.keys) : key \notin Range(columns)

\* writeheader and writerows: the lines written, up to the first row with
\* a key that is no column
RECURSIVE Lines(_, _, _)
Lines(rows, columns, k) ==
    IF k > Len(rows) \/ HasExtraKey(rows[k], columns) THEN <<>>
    ELSE <<Line(rows[k], columns)>> \o Lines(rows, columns, k + 1)
Raises(rows, columns) == \E k \in DOMAIN rows : HasExtraKey(rows[k], columns)

\* the file as an earlier run left it
OLD_FILE == Written(<<(<<"old">>)>>)

WrOff ==
    /\ wr_pc = "off"
    /\ wr_writer = SAVE_RESULTS
    /\ wr_rows = <<>>
    /\ wr_columns = <<>>
    /\ wr_dir_existed = TRUE
    /\ wr_dir_exists = TRUE
    /\ wr_file0 = NoFile
    /\ wr_file = NoFile
    /\ wr_outcome = "pending"
    /\ wr_reported = FALSE

\* a writer is called: save_results_to_csv by the main of
\* get_contributors.py, with at least one row, _save_to_csv by
\* analyze_repositories, with any number of rows
WrInit ==
    /\ wr_pc = "call"
    /\ \/ /\ wr_writer = SAVE_RESULTS
          /\ wr_columns = OUTPUT_COLUMNS
          /\ \E keys \in NewRowKeys : wr_rows \in RowLists(keys, 1)
       \/ /\ wr_writer = SAVE_TO_CSV
          /\ wr_columns = <<>>
          /\ \E keys \in IssueKeys : wr_rows \in RowLists(keys, 0)
    /\ wr_dir_existed \in BOOLEAN
    /\ wr_dir_exists = wr_dir_existed
    /\ wr_file0 \in IF wr_dir_existed THEN {NoFile, OLD_FILE} ELSE {NoFile}
    /\ wr_file = wr_file0
    /\ wr_outcome = "pending"
    /\ wr_reported = FALSE

\* "with open(path, 'w') ...: writer = csv.DictWriter(f, fieldnames=columns);
\* writer.writeheader(); writer.writerows(rows)": the file after it
Opened(rows, columns) == Written(<<columns>> \o Lines(rows, columns, 1))

\* (a changed WrSaveResults: the directory of the output file is made
\* when it is not there)
WrSaveResultsMakesDir ==
    /\ wr_pc = "call"
    /\ wr_writer = SAVE_RESULTS
    /\ wr_dir_exists' = TRUE
    /\ wr_file' = Opened(wr_rows, wr_columns)
    /\ wr_outcome' = IF Raises(wr_rows, wr_columns) THEN "False" ELSE "True"
    /\ wr_reported' = Raises(wr_rows, wr_columns)
    /\ wr_pc' = "done"
    /\ UNCHANGED <<wr_writer, wr_rows, wr_columns, wr_dir_existed, wr_file0>>
    /\ UNCHANGED notWr

\* save_results_to_csv: open raises when the directory is not there; every
\* exception is printed and answered with False
WrSaveResults ==
    /\ wr_pc = "call"
    /\ wr_writer = SAVE_RESULTS
    /\ IF ~wr_dir_exists
       THEN /\ wr_outcome' = "False"
            /\ wr_reported' = TRUE
            /\ UNCHANGED wr_file
       ELSE /\ wr_file' = Opened(wr_rows, wr_columns)
            /\ wr_outcome' =
                 IF Raises(wr_rows, wr_columns) THEN "False" ELSE "True"
            /\ wr_reported' = Raises(wr_rows, wr_columns)
    /\ wr_pc' = "done"
    /\ UNCHANGED <<wr_writer, wr_rows, wr_columns, wr_dir_existed,
                   wr_dir_exists, wr_file0>>
    /\ UNCHANGED notWr

\* _save_to_csv: nothing is done for no data; the columns are the keys of
\* the first row; an exception of open or of the writer is not caught
WrSaveToCsv ==
    /\ wr_pc = "call"
    /\ wr_writer = SAVE_TO_CSV
    /\ IF wr_rows = <<>>
       THEN /\ wr_outcome' = "None"
            /\ UNCHANGED <<wr_columns, wr_file, wr_reported>>
       ELSE /\ wr_columns' = wr_rows[1].keys
            /\ IF ~wr_dir_exists
               THEN /\ wr_outcome' = "raised"
                    /\ wr_reported' = TRUE
                    /\ UNCHANGED wr_file
               ELSE /\ wr_file' = Opened(wr_rows, wr_rows[1].keys)
                    /\ wr_outcome' = IF Raises(wr_rows, wr_rows[1].keys)
                                     THEN "raised" ELSE "None"
                    /\ wr_reported' = Raises(wr_rows, wr_rows[1].keys)
    /\ wr_pc' = "done"
    /\ UNCHANGED <<wr_writer, wr_rows, wr_dir_existed, wr_dir_exists, wr_file0>>
    /\ UNCHANGED notWr

WrNext ==
    \/ WrSaveResults
    \/ WrSaveToCsv

(***************************************************************************)
(* clone_repos.py: clone_github_repos.  The CSV file is read with one      *)
(* encoding after the other; a row is the text of its html_url field, the  *)
(* same under every encoding that decodes it (a URL is ASCII).             *)
(* cl_attempts is the history of the 'git clone' commands run.             *)
(***************************************************************************)
\* the most data rows of the CSV file
NumCloneRows == 2

\* line 12
ENCODINGS == <<"utf-8", "latin1", "utf-16", "cp1252">>

\* the values of the html_url field
CloneUrls == {"", "https://github.com/a/x", "https://github.com/b/y"}

\* lines 17-27 with a file that is there and has the html_url column: the
\* outcomes of open, read(4096), seek and the reading of the header.
\* "raises": the first block of the file does not decode; "no_column": the
\* header as decoded has no html_url; latin1 decodes every byte, and a
\* file of one-byte characters is no UTF-16
OpenOutcomes(encoding) ==
    CASE encoding = "utf-8" -> {"ok", "raises"}
      [] encoding = "latin1" -> {"ok"}
      [] encoding = "utf-16" -> {"raises", "no_column"}
      [] encoding = "cp1252" -> {"ok", "raises"}

\* the reader decodes the file block by block: a byte that is not of the
\* encoding, beyond the first block, raises UnicodeDecodeError at the row
\* whose block it is in
CanFailMidFile(encoding) == encoding \in {"utf-8", "cp1252"}

\* what the pass of the row loop comes to: the row is not decoded, its URL
\* is empty, git clone exits with 0, exits with an error
\* (CalledProcessError), or subprocess.run raises something else (git
\* cannot be launched)
RowOutcomes == {"decode_error", "skip", "cloned", "failed", "raised"}

ClOff ==
    /\ cl_pc = "off"
    /\ cl_rows = <<>>
    /\ cl_enc = 1
    /\ cl_idx = 1
    /\ cl_attempts = <<>>

ClInit ==
    /\ cl_pc = "open"
    /\ cl_rows \in UNION {[1..n -> CloneUrls] : n \in 0..NumCloneRows}
    /\ cl_enc = 1
    /\ cl_idx = 1
    /\ cl_attempts = <<>>

\* lines 14-30: the file is opened with the next encoding; "continue" and
\* both except clauses go on to the encoding after it
ClOpen(outcome) ==
    /\ cl_pc = "open"
    /\ cl_enc <= Len(ENCODINGS)
    /\ outcome \in OpenOutcomes(ENCODINGS[cl_enc])
    /\ IF outcome = "ok"
       THEN /\ cl_pc' = "rows"
            /\ cl_idx' = 1
            /\ UNCHANGED cl_enc
       ELSE /\ cl_enc' = cl_enc + 1
            /\ UNCHANGED <<cl_pc, cl_idx>>
    /\ UNCHANGED <<cl_rows, cl_attempts>>
    /\ UNCHANGED notCl

\* a 'git clone' command of row idx
Attempt(idx, outcome) == [row |-> idx, url |-> cl_rows[idx], outcome |-> outcome]

\* lines 33-51 and 56-59, one pass of "for row in csv_reader": the clone of
\* a row with a URL; UnicodeDecodeError from the reader and every exception
\* other than CalledProcessError from subprocess.run leave the with block
\* for the except clauses of line 56 and 58, and the next encoding is tried
ClRow(outcome) ==
    /\ cl_pc = "rows"
    /\ cl_idx <= Len(cl_rows)
    /\ outcome = "decode_error" => CanFailMidFile(ENCODINGS[cl_enc])
    /\ outcome = "skip" <=> (outcome # "decode_error" /\ cl_rows[cl_idx] = "")
    /\ cl_attempts' = IF outcome \in {"cloned", "failed", "raised"}
                      THEN Append(cl_attempts, Attempt(cl_idx, outcome))
                      ELSE cl_attempts
    /\ IF outcome \in {"decode_error", "raised"}
       THEN /\ cl_enc' = cl_enc + 1
            /\ cl_pc' = "open"
            /\ UNCHANGED cl_idx
       ELSE /\ cl_idx' = cl_idx + 1
            /\ UNCHANGED <<cl_pc, cl_enc>>
    /\ UNCHANGED cl_rows
    /\ UNCHANGED notCl

\* line 54: the reader has no more rows, return
ClReturn ==
    /\ cl_pc = "rows"
    /\ cl_idx > Len(cl_rows)
    /\ cl_pc' = "returned"
    /\ UNCHANGED <<cl_rows, cl_enc, cl_idx, cl_attempts>>
    /\ UNCHANGED notCl

\* lines 61-63: no encoding is left, sys.exit(1)
ClExit ==
    /\ cl_pc = "open"
    /\ cl_enc > Len(ENCODINGS)
    /\ cl_pc' = "exit"
    /\ UNCHANGED <<cl_rows, cl_enc, cl_idx, cl_attempts>>
    /\ UNCHANGED notCl

ClNext ==
    \/ \E outcome \in {"ok", "raises", "no_column"} : ClOpen(outcome)
    \/ \E outcome \in RowOutcomes : ClRow(outcome)
    \/ ClReturn
    \/ ClExit

(***************************************************************************)
(* rq3_2script.py: IssueResolutionAnalyzer.analyze_repositories.  A        *)
(* repository is its index in repo_urls, an issue its resolution time in   *)
(* whole seconds (GitHub's timestamps are whole seconds).  A number of     *)
(* days is kept in ten-thousandths of a day.  Of the summary row, the mean, *)
(* the standard deviation, the total and the count of fast resolutions are *)
(* left out.  ia_times is the history of what get_repo_issues returned.    *)
(***************************************************************************)
\* the most URLs of repo_urls
NumIaRepos == 2
\* the most qualifying issues of one repository
MaxRepoIssues == 3

SECONDS_PER_DAY == 24 * 3600

\* resolution times: 5 minutes, 8 minutes 20 seconds, 25 hours
IssueTimes == {300, 500, 90000}

\* what get_repo_issues returns: the resolution times of the qualifying
\* issues in the order of the API; [] also when the request raised
IssueLists == UNION {[1..n -> IssueTimes] : n \in 0..MaxRepoIssues}

\* sorted(resolution_times)
RECURSIVE Insert(_, _)
Insert(x, sorted) ==
    IF sorted = <<>> THEN <<x>>
    ELSE IF x <= Head(sorted) THEN <<x>> \o sorted
    ELSE <<Head(sorted)>> \o Insert(x, Tail(sorted))
RECURSIVE Sorted(_)
Sorted(times) ==
    IF times = <<>> THEN <<>> ELSE Insert(Head(times), Sorted(Tail(times)))

\* min(resolution_times) and max(resolution_times)
MinOf(times) == CHOOSE x \in Range(times) : \A y \in Range(times) : x <= y
MaxOf(times) == CHOOSE x \in Range(times) : \A y \in Range(times) : x >= y

\* int(n * 0.25) and int(n * 0.75) (both products are exact), and n // 2
P25Index(n) == (n * 25) \div 100
P75Index(n) == (n * 75) \div 100
MedianIndex(n) == n \div 2

\* sorted_times[index], with Python's indexes from 0
At(sorted_times, index) == sorted_times[index + 1]

\* the integer nearest to num / den, the even one of two that are equally
\* near
RoundHalfEven(num, den) ==
    LET q == num \div den
        r == num % den
    IN  IF 2 * r > den THEN q + 1
        ELSE IF 2 * r < den THEN q
        ELSE IF q % 2 = 0 THEN q ELSE q + 1

\* round(seconds / (24 * 3600), 4) and round(seconds / (24 * 3600), 2), in
\* ten-thousandths of a day
Days4(seconds) == RoundHalfEven(seconds * 10000, SECONDS_PER_DAY)
Days2(seconds) == RoundHalfEven(seconds * 100, SECONDS_PER_DAY) * 100

\* lines 111-140: the summary row of a repository with issues
IssueSummary(repository, resolution_times) ==
    LET sorted_times == Sorted(resolution_times)
        n == Len(sorted_times)
        p25 == At(sorted_times, P25Index(n))
        p75 == At(sorted_times, P75Index(n))
    IN  [repository |-> repository,
         issues_analyzed |-> Len(resolution_times),
         p25_days |-> Days2(p25),
         median_days |-> Days4(At(sorted_times, MedianIndex(n))),
         p75_days |-> Days4(p75),
         min_days |-> Days4(MinOf(resolution_times)),
         max_days |-> Days4(MaxOf(resolution_times))]

IssueRows(repository, resolution_times) ==
    [k \in DOMAIN resolution_times |->
        [repository |-> repository, resolution_seconds |-> resolution_times[k]]]

IaOff ==
    /\ ia_pc = "off"
    /\ ia_n = 0
    /\ ia_idx = 1
    /\ ia_times = <<>>
    /\ all_issues = <<>>
    /\ summary_results = <<>>
    /\ ia_summary_csv = NoFile

\* analyze_repositories is called with a CSV of ia_n distinct URLs
IaInit ==
    /\ ia_pc = "read"
    /\ ia_n \in 0..NumIaRepos
    /\ ia_idx = 1
    /\ ia_times = <<>>
    /\ all_issues = <<>>
    /\ summary_results = <<>>
    /\ ia_summary_csv = NoFile

\* lines 84-93: the list of URLs is read, or the reading raises (no file,
\* no html_url column) and [] is returned
IaReadUrls(read_ok) ==
    /\ ia_pc = "read"
    /\ ia_pc' = IF read_ok THEN "repos" ELSE "returned"
    /\ UNCHANGED <<ia_n, ia_idx, ia_times, all_issues, summary_results,
                   ia_summary_csv>>
    /\ UNCHANGED notIa

\* lines 98-140, one pass of "for repo_url in repo_urls" with what
\* get_repo_issues returned
IaRepo(issues) ==
    /\ ia_pc = "repos"
    /\ ia_idx <= ia_n
    /\ ia_times' = Append(ia_times, issues)
    /\ ia_idx' = ia_idx + 1
    /\ IF issues = <<>>
       THEN UNCHANGED <<all_issues, summary_results>>
       ELSE /\ all_issues' = all_issues \o IssueRows(ia_idx, issues)
            /\ summary_results' =
                 Append(summary_results, IssueSummary(ia_idx, issues))
    /\ UNCHANGED <<ia_pc, ia_n, ia_summary_csv>>
    /\ UNCHANGED notIa

\* lines 142-149: the two calls of _save_to_csv, which writes nothing for
\* no rows and lets the exception of open through, and the return
IaSave(save_ok) ==
    /\ ia_pc = "repos"
    /\ ia_idx > ia_n
    /\ IF summary_results = <<>>
       THEN ia_pc' = "returned" /\ UNCHANGED ia_summary_csv
       ELSE IF save_ok
       THEN ia_pc' = "returned" /\ ia_summary_csv' = Written(summary_results)
       ELSE ia_pc' = "raised" /\ UNCHANGED ia_summary_csv
    /\ UNCHANGED <<ia_n, ia_idx, ia_times, all_issues, summary_results>>
    /\ UNCHANGED notIa

IaNext ==
    \/ \E read_ok \in BOOLEAN : IaReadUrls(read_ok)
    \/ \E issues \in IssueLists : IaRepo(issues)
    \/ \E save_ok \in BOOLEAN : IaSave(save_ok)

(***************************************************************************)
(* The specifications                                                      *)
(***************************************************************************)
InitSeverity ==
    IaOff /\ ClOff /\ WrOff /\ FlOff /\ SmOff /\ CtOff /\ RvOff /\ TmOff
    /\ GhOff /\ OwOff /\ RqOff /\ SnOff /\ SevInit
SpecSeverity == InitSeverity /\ [][SevNext]_vars

InitOw ==
    IaOff /\ ClOff /\ WrOff /\ FlOff /\ SmOff /\ CtOff /\ RvOff /\ TmOff
    /\ GhOff /\ SevOff /\ RqOff /\ SnOff /\ OwInit
SpecOw == InitOw /\ [][OwNext]_vars

InitRq2 ==
    IaOff /\ ClOff /\ WrOff /\ FlOff /\ SmOff /\ CtOff /\ RvOff /\ TmOff
    /\ GhOff /\ SevOff /\ OwOff /\ SnOff /\ RqInit
SpecRq2 == InitRq2 /\ [][RqNext]_vars

InitSonar ==
    IaOff /\ ClOff /\ WrOff /\ FlOff /\ SmOff /\ CtOff /\ RvOff /\ TmOff
    /\ GhOff /\ SevOff /\ OwOff /\ RqOff /\ SnInit
SpecSonar == InitSonar /\ [][SnNext]_vars

InitSpider ==
    IaOff /\ ClOff /\ WrOff /\ FlOff /\ SmOff /\ CtOff /\ RvOff /\ TmOff
    /\ SevOff /\ OwOff /\ RqOff /\ SnOff /\ GhInit
SpecSpider == InitSpider /\ [][GhNext]_vars

InitTime ==
    IaOff /\ ClOff /\ WrOff /\ FlOff /\ SmOff /\ CtOff /\ RvOff /\ SevOff
    /\ OwOff /\ RqOff /\ SnOff /\ GhOff /\ TmInit
SpecTime == InitTime /\ [][TmNext]_vars

InitRevert ==
    IaOff /\ ClOff /\ WrOff /\ FlOff /\ SmOff /\ CtOff /\ SevOff /\ OwOff
    /\ RqOff /\ SnOff /\ GhOff /\ TmOff /\ RvInit
SpecRevert == InitRevert /\ [][RvNext]_vars

InitContributors ==
    IaOff /\ ClOff /\ WrOff /\ FlOff /\ SmOff /\ SevOff /\ OwOff /\ RqOff
    /\ SnOff /\ GhOff /\ TmOff /\ RvOff /\ CtInit
SpecContributors == InitContributors /\ [][CtNext]_vars

InitSummarize ==
    IaOff /\ ClOff /\ WrOff /\ FlOff /\ SevOff /\ OwOff /\ RqOff /\ SnOff
    /\ GhOff /\ TmOff /\ RvOff /\ CtOff /\ SmInit
SpecSummarize == InitSummarize /\ [][SmNext]_vars

InitFilter ==
    IaOff /\ ClOff /\ WrOff /\ SevOff /\ OwOff /\ RqOff /\ SnOff /\ GhOff
    /\ TmOff /\ RvOff /\ CtOff /\ SmOff /\ FlInit
SpecFilter == InitFilter /\ [][FlNext]_vars

InitWriter ==
    IaOff /\ ClOff /\ SevOff /\ OwOff /\ RqOff /\ SnOff /\ GhOff /\ TmOff
    /\ RvOff /\ CtOff /\ SmOff /\ FlOff /\ WrInit
SpecWriter == InitWriter /\ [][WrNext]_vars

InitClone ==
    IaOff /\ WrOff /\ FlOff /\ SmOff /\ CtOff /\ RvOff /\ TmOff /\ GhOff
    /\ SevOff /\ OwOff /\ RqOff /\ SnOff /\ ClInit
SpecClone == InitClone /\ [][ClNext]_vars

InitIssues ==
    ClOff /\ WrOff /\ FlOff /\ SmOff /\ CtOff /\ RvOff /\ TmOff /\ GhOff
    /\ SevOff /\ OwOff /\ RqOff /\ SnOff /\ IaInit
SpecIssues == InitIssues /\ [][IaNext]_vars

(***************************************************************************)
(* ow.py: the claims                                                       *)
(***************************************************************************)
\* C1: the severity derived from the CVSS score s of a vulnerability
\* (cvssv3.baseScore when present, else cvssv2.score, else 0) is CRITICAL
\* iff s >= 9.0, HIGH iff 7.0 <= s < 9.0, MEDIUM iff 4.0 <= s < 7.0, LOW iff
\* 0 < s < 4.0 and UNKNOWN iff s = 0; a score on a threshold is in the
\* higher bucket.
C1_SeverityThresholds ==
    sev_pc = "derived" =>
        /\ sev_v3 # Absent => sev_score = sev_v3
        /\ sev_v3 = Absent /\ sev_v2 # Absent => sev_score = sev_v2
        /\ sev_v3 = Absent /\ sev_v2 = Absent => sev_score = 0
        /\ sev_severity = "CRITICAL" <=> sev_score >= 90
        /\ sev_severity = "HIGH" <=> (70 <= sev_score /\ sev_score < 90)
        /\ sev_severity = "MEDIUM" <=> (40 <= sev_score /\ sev_score < 70)
        /\ sev_severity = "LOW" <=> (0 < sev_score /\ sev_score < 40)
        /\ sev_severity = "UNKNOWN" <=> sev_score = 0

\* a score of exactly 9.0, taken from cvssv2 because cvssv3 has no
\* baseScore, was derived to CRITICAL
C1_Witness ==
    /\ sev_pc = "derived"
    /\ sev_v3 = Absent
    /\ sev_v2 = 90
    /\ sev_severity = "CRITICAL"

\* the projects process_scan_results has run for, with a report to read
Processed == {i \in 1..ow_n : i < ow_idx /\ ow_scan[i] = "ok"}
RowsOf(i) == {k \in DOMAIN detailed_data : detailed_data[k].projectName = i}
GradedRowsOf(i) == {k \in RowsOf(i) : detailed_data[k].severity # "UNKNOWN"}
SummaryOf(i) == {k \in DOMAIN summary_data : summary_data[k].projectName[1] = i}
CounterSum(r) ==
    r.criticalSeverityCount + r.highSeverityCount
        + r.mediumSeverityCount + r.lowSeverityCount
CountersNatural(r) ==
    /\ r.criticalSeverityCount \in Nat
    /\ r.highSeverityCount \in Nat
    /\ r.mediumSeverityCount \in Nat
    /\ r.lowSeverityCount \in Nat

\* C2 as claimed: after process_scan_results has run for a project, the
\* counters of its summary row are non-negative integers whose sum is the
\* number of detailed rows with that project's name.
C2_AsClaimed ==
    \A i \in Processed : \A k \in SummaryOf(i) :
        /\ CountersNatural(summary_data[k])
        /\ CounterSum(summary_data[k]) = Cardinality(RowsOf(i))

\* C2 amended: after process_scan_results has run for a project, the
\* counters of its summary row are non-negative integers whose sum is the
\* number of that project's detailed rows whose severity is not UNKNOWN,
\* plus one when the processing stopped on a malformed entry after its
\* counter was incremented and before its row was appended.
C2_CountersSumToGradedRows ==
    \A i \in Processed : \A k \in SummaryOf(i) :
        /\ CountersNatural(summary_data[k])
        /\ CounterSum(summary_data[k]) = Cardinality(GradedRowsOf(i)) + ow_lost[i]

\* a processed project with a counted finding and an UNKNOWN one
C2_Witness ==
    \E i \in Processed : \E k \in SummaryOf(i) :
        /\ CounterSum(summary_data[k]) >= 1
        /\ Cardinality(GradedRowsOf(i)) >= 1
        /\ Cardinality(RowsOf(i)) > Cardinality(GradedRowsOf(i))

OwFailed == {i \in 1..ow_n : ow_scan[i] = "failed"}

\* C3: when main has gone through its N projects, k of them with a failed
\* scan, summary_data has exactly N rows, exactly one per project, the rows
\* of the k failed projects all zero; success_count + failure_count = N and
\* failure_count = k.
C3_OneRowPerProject ==
    ow_pc \in {"done", "exit1"} =>
        /\ Len(summary_data) = ow_n
        /\ \A i \in 1..ow_n : Cardinality(SummaryOf(i)) = 1
        /\ \A i \in OwFailed : \A k \in SummaryOf(i) :
              /\ CounterSum(summary_data[k]) = 0
              /\ summary_data[k].totalVulnerabilities = 0
        /\ success_count + failure_count = ow_n
        /\ failure_count = Cardinality(OwFailed)

\* a finished run of two projects: one scan failed by raising, the other
\* gave a report with a counted finding
C3_Witness ==
    /\ ow_pc = "done"
    /\ ow_n = 2
    /\ Cardinality(OwFailed) = 1
    /\ \E k \in DOMAIN summary_data :
          summary_data[k].projectName[2] = " (SCAN FAILED)"
    /\ \E k \in DOMAIN summary_data : CounterSum(summary_data[k]) >= 1

(***************************************************************************)
(* rq2script.py: the claims                                                *)
(***************************************************************************)
\* the git projects main enumerates, and those that timed out or raised
GitProjects == {i \in 1..rq_n : rq_entries[i] = "git"}
RqFailed == {i \in GitProjects : rq_outcome[i] \in {"timeout", "error"}}
Occurrences(seq, x) == Cardinality({j \in DOMAIN seq : seq[j] = x})
Elements(seq) == {seq[j] : j \in DOMAIN seq}

\* what C4 says of the two lists: N - k rows, k skipped names, every
\* enumerated project once in exactly one of the lists
RqPartition ==
    /\ Len(project_data) = Cardinality(GitProjects) - Cardinality(RqFailed)
    /\ Len(skipped_projects) = Cardinality(RqFailed)
    /\ Elements(skipped_projects) = RqFailed
    /\ Elements(project_data) = GitProjects \ RqFailed
    /\ \A i \in GitProjects :
          Occurrences(project_data, i) + Occurrences(skipped_projects, i) = 1

C6_TimedOutSkippedOnce ==
    \A i \in 1..rq_n :
        rq_outcome[i] = "timeout" =>
            /\ rq_pool[i] = "terminated"
            /\ rq_submits[i] = 1
            /\ Occurrences(skipped_projects, i) = 1
            /\ Occurrences(project_data, i) = 0
            /\ rq_idx > i
            /\ rq_pc \in {"loop", "wait", "done"}
            /\ rq_pc = "done" =>
                  \A j \in GitProjects : rq_outcome[j] # "pending"

\* a project timed out and a later project was processed and gave its row
C6_Witness ==
    \E i \in GitProjects : \E j \in GitProjects :
        /\ i < j
        /\ rq_outcome[i] = "timeout"
        /\ rq_outcome[j] = "ok"
        /\ Occurrences(project_data, j) = 1

(***************************************************************************)
(* SonarResultsGenerator.py: the claims                                    *)
(***************************************************************************)
\* C5: a failure of scan_project for one project, of any kind (the scanner
\* exits non-zero, or the scanner cannot be launched), never aborts the
\* batch: the other projects are still scanned, the export phase runs for
\* the projects that succeeded and main reaches the CSV-writing step.
C5_ScanFailureNeverAborts ==
    (\E i \in SonarProjects : sn_scan[i] \in {"failed", "raised"}) =>
        /\ sn_pc \notin {"unwind", "aborted"}
        /\ sn_pc = "done" => \A i \in SonarProjects : sn_scan[i] \in ScanFinished

(***************************************************************************)
(* github_spider.py: the claims                                            *)
(***************************************************************************)
\* C7: on a throttling response (403 with "rate limit exceeded")
\* _make_request sleeps until the reset time of the response has elapsed
\* and issues the same request (URL and params) again, however many
\* requests it has made; on a 200 it returns the body of that response; on
\* the hard-limit response (422, first 1000 results) it returns None and
\* issues no request again.
C7_ThrottleRetryAndLimit ==
    /\ gh_resp.status = 403 /\ gh_resp.text = RATE_LIMIT_TEXT =>
          /\ gh_pc = "request"
          /\ gh_clock >= gh_resp.reset
          /\ gh_req = gh_sent
    /\ gh_resp.status = 200 /\ gh_pc = "returned" =>
          /\ ~gh_result.none
          /\ gh_result.items = gh_resp.items
    /\ gh_resp.status = 422 /\ gh_resp.text = HARD_LIMIT_TEXT =>
          /\ gh_pc \in {"returned", "done"}
          /\ gh_result.none

\* a second throttling response in one call, announcing a reset time later
\* than the time it arrived at: the call slept and is about to ask again
C7_Witness ==
    /\ gh_resp.status = 403
    /\ gh_resp.text = RATE_LIMIT_TEXT
    /\ gh_resp.reset = MaxReset
    /\ gh_attempts = 2
    /\ gh_pc = "request"
    /\ gh_clock > MaxReset

\* C8: a request failure (not found, server error, network exception) is
\* reported as an outcome the caller can tell apart from the "limit
\* reached" sentinel: get_repositories_by_page_range records "limit
\* reached" only when the provider returned the hard-limit response.
C8_LimitOnlyOnHardLimit ==
    /\ max_page_reached => gh_limit_seen
    /\ gh_pc = "returned" /\ gh_result.none =>
          gh_resp.status = 422 /\ gh_resp.text = HARD_LIMIT_TEXT

(***************************************************************************)
(* parse_time and format_time: the claims                                  *)
(***************************************************************************)
\* C9: parse_time(format_time(n)) = n for every total n >= 0, and
\* parse_time(format_time(parse_time(s))) = parse_time(s) for every debt
\* string s of the forms "<N>h<N>min", "<N>h", "<N>min";
\* parse_time("0min") = 0 and format_time(0) = "0min".
C9_RoundTrip ==
    /\ tm_pc = "done" => tm_back = tm_total
    /\ tm_pc \in {"format", "reparse", "done"} /\ tm_debt = <<"0", "m", "i", "n">> =>
          tm_total = 0
    /\ tm_pc \in {"reparse", "done"} /\ tm_total = 0 =>
          tm_text = <<"0", "m", "i", "n">>

\* "1h95min" was parsed to 155, formatted to "2h35min" and parsed to 155
C9_Witness ==
    /\ tm_pc = "done"
    /\ tm_debt = <<"1", "h", "9", "5", "m", "i", "n">>
    /\ tm_text = <<"2", "h", "3", "5", "m", "i", "n">>
    /\ tm_back = 155

\* C10: parse_time returns 60*H + M for "<H>h<M>min", 60*H for "<H>h", M
\* for "<M>min" and 0 for the empty string; format_time(t) for t > 0 emits
\* H = t div 60 and M = t mod 60 as "<H>h<M>min" iff both are non-zero,
\* "<H>h" iff M = 0, "<M>min" iff H = 0: an emitted minutes component is in
\* 1..59 and no zero component is emitted.
C10_ParseAndFormatShape ==
    /\ tm_kind = "debt" /\ tm_pc # "parse" =>
          tm_total = 60 * ToInt(tm_h) + ToInt(tm_m)
    /\ tm_pc \in {"reparse", "done"} /\ tm_total > 0 =>
          LET H == tm_total \div 60
              M == tm_total % 60
          IN  /\ tm_text = (IF H > 0 THEN ToStr(H) \o <<"h">> ELSE <<>>)
                             \o (IF M > 0 THEN ToStr(M) \o <<"m", "i", "n">> ELSE <<>>)
              /\ Contains(tm_text, <<"h">>) <=> H > 0
              /\ Contains(tm_text, <<"m", "i", "n">>) <=> M > 0
              /\ Contains(tm_text, <<"m", "i", "n">>) =>
                    ToInt(SearchGroup(tm_text, <<"m", "i", "n">>)) \in 1..59

\* "10h5min" was parsed to 605 and formatted to "10h5min"
C10_Witness ==
    /\ tm_pc = "done"
    /\ tm_h = <<"1", "0">>
    /\ tm_m = <<"5">>
    /\ tm_total = 605
    /\ tm_text = <<"1", "0", "h", "5", "m", "i", "n">>

(***************************************************************************)
(* revert_repos.py: the claims                                             *)
(***************************************************************************)
\* the entries of failed_projects that name repository i
FailuresOf(i) == {k \in DOMAIN failed_projects : failed_projects[k][1] = i}

\* C11 (as claimed): for a repository with no commit at or before the
\* target date no 'git reset --hard' is issued, its name is in
\* failed_projects exactly once (with a reason), and the run goes on: when
\* the function is left, every repository of the batch has been processed
C11_NoCommitSkippedOnce ==
    /\ \A i \in DOMAIN rv_done :
          ~rv_done[i].old =>
              /\ \A k \in DOMAIN rv_done[i].cmds : rv_done[i].cmds[k] # "reset"
              /\ rv_done[i].tree = "tip"
              /\ Cardinality(FailuresOf(i)) = 1
    /\ rv_pc = "found" => rv_repo.old
    /\ rv_pc \in {"done", "raised"} /\ (\E i \in DOMAIN rv_done : ~rv_done[i].old) =>
          Len(rv_done) = rv_n

\* C12 (as claimed): on a repository with no commit before the target date
\* no checkout and no reset is run, and its checked-out branch and working
\* tree are those of before the run
C12_NoCommitUntouched ==
    \A i \in DOMAIN rv_done :
        ~rv_done[i].old =>
            /\ rv_done[i].cmds = <<>>
            /\ ~rv_done[i].moved
            /\ rv_done[i].tree = "tip"

\* the default branch as the claim resolves it: the branch origin/HEAD
\* names, else the first of main, master that is a local branch, else the
\* checked-out branch
ClaimedDefault(repo) ==
    IF repo.remote.returncode = 0
    THEN SubSeq(repo.remote.stdout, 4, Len(repo.remote.stdout))
    ELSE IF <<"main">> \in repo.locals THEN <<"main">>
    ELSE IF <<"master">> \in repo.locals THEN <<"master">>
    ELSE repo.head0

\* C13 (as claimed): the default branch is the one origin/HEAD names when
\* that lookup succeeds, otherwise the first of main, master with a local
\* branch, otherwise the checked-out branch
C13_ResolutionOrder ==
    (rv_pc = "resolved" /\ rv_default.bound) =>
        rv_default.name = ClaimedDefault(rv_repo)

(***************************************************************************)
(* get_contributors.py: the claims                                         *)
(***************************************************************************)
\* the rows of the input CSV for which the claim has no API call: the URL
\* is empty, its host is not github.com, or it has no owner or no repo
ClaimedNoCall(url) ==
    \/ url.none
    \/ url = EmptyUrl
    \/ url.netloc # "github.com"
    \/ Len(url.path) < 2
    \/ url.path[1] = "" \/ url.path[2] = ""

\* the finished calls of get_repo_contributors_count_graphql for row i
CallsFor(i) == {k \in DOMAIN ct_calls : ct_calls[k].row = i}

\* C14 (as claimed): process_csv_with_specific_columns returns one row per
\* row of the input CSV, in input order; a row with an empty URL, a URL
\* that is not one of github.com or one without owner/repo has
\* contributors_count 0 and no API call, every other row the count that
\* was returned for its owner/repo
C14_OneRowPerInputRow ==
    ct_pc \in {"returned", "raised"} =>
        /\ Len(ct_result) = Len(ct_read)
        /\ \A i \in DOMAIN ct_result :
              /\ ct_result[i].html_url = ct_read[i]
              /\ IF ClaimedNoCall(ct_read[i])
                 THEN /\ ct_result[i].contributors_count = 0
                      /\ CallsFor(i) = {}
                 ELSE \E k \in CallsFor(i) :
                         ct_result[i].contributors_count = ct_calls[k].returned

\* C15: get_repo_contributors_count_graphql calls the REST count exactly
\* when the GraphQL request raised, had a status other than 200 or a body
\* with 'errors', then once, and returns what it returned; otherwise it
\* makes no REST call and returns the totalCount, 0 for a repository that
\* is not there; the value returned is a natural number
C15_RestFallbackOnlyOnError ==
    /\ \A k \in DOMAIN ct_calls :
          LET call == ct_calls[k] IN
          /\ call.returned \in Nat
          /\ IF call.graphql.kind \in {"raises", "status", "errors"}
             THEN call.rest_calls = 1 /\ call.returned = call.rest_count
             ELSE /\ call.rest_calls = 0
                  /\ call.graphql.kind = "count" =>
                        call.returned = call.graphql.totalCount
                  /\ call.graphql.kind = "no_repository" => call.returned = 0
    /\ ct_pc = "rest" => ct_call.rest_calls = 1
    /\ ct_pc = "graphql" => ct_call.rest_calls = 0

\* a call fell back to REST after an exception and returned the count of
\* two pages, and another returned the GraphQL totalCount
C15_Witness ==
    \E j, k \in DOMAIN ct_calls :
        /\ ct_calls[j].graphql.kind = "raises"
        /\ ct_calls[j].returned = PerPage + 1
        /\ ct_calls[k].graphql.kind = "count"
        /\ ct_calls[k].returned = MaxCount

(***************************************************************************)
(* SonarResultsGenerator.py, summarize_results: the claims                 *)
(***************************************************************************)
\* the minutes the claim has a debt cell contribute: those of the text, 0
\* for a missing cell and for a text without a number
ClaimedMinutes(cell) == IF cell.type = "str" THEN parse_time(cell.text) ELSE 0

\* the sum of the claimed minutes of the findings of project among the
\* first k rows read
RECURSIVE ClaimedDebt(_, _)
ClaimedDebt(project, k) ==
    IF k = 0 THEN 0
    ELSE ClaimedDebt(project, k - 1)
         + (IF sm_rows[k].project = project
            THEN ClaimedMinutes(sm_rows[k].debt) ELSE 0)

\* C16 (as claimed): a finding with a missing or unparseable debt adds 0
\* minutes to the total of its project, one with a missing or malformed
\* impacts field adds no impact counts, and no such finding keeps the
\* summary rows from being written: when summarize_results ends, having
\* read findings, summary.csv has a row for every project of the findings,
\* with the total of the minutes of its findings
C16_NeutralValuesAndSummaryWritten ==
    (sm_pc \in {"done", "failed"} /\ sm_rows # <<>>) =>
        /\ summary_file # NoFile
        /\ \A k \in DOMAIN sm_rows :
              \E j \in DOMAIN summary_file.rows :
                  /\ summary_file.rows[j].project = sm_rows[k].project
                  /\ summary_file.rows[j].totalTimeNeededToRemoveDebts
                        = format_time(ClaimedDebt(sm_rows[k].project, Len(sm_rows)))

(***************************************************************************)
(* github_csv_filter.py: the claims                                        *)
(***************************************************************************)
\* the value the claim has a count field evaluated with: its number, 0
\* when it is missing, empty or no number
ClaimedCount(cell) ==
    IF cell.type # "none" /\ IsIntText(cell.text) THEN ToInt(cell.text) ELSE 0

\* the rows the claim has pass the filter
ClaimedPass(repo) ==
    /\ ClaimedCount(repo.stars) >= fl_args.min_stars
    /\ ClaimedCount(repo.issues) >= fl_args.min_open_issues
    /\ TopicCount(repo.topics) >= fl_args.min_topics

\* C17 (as claimed): a row whose stargazers_count, open_issues_count or
\* topics is missing, empty or unparseable is evaluated with 0 for that
\* field, and the other rows are filtered all the same: once the CSV is
\* loaded, the run ends with exactly the rows that pass in filtered_repos,
\* and does not fail on a row
C17_NeutralValueNeverFails ==
    (fl_pc = "done" /\ repositories # <<>>) =>
        /\ filtered_repos = SelectSeq(repositories, ClaimedPass)
        /\ fl_return = 1 => filtered_repos # <<>> /\ filtered_csv = NoFile

(***************************************************************************)
(* ow.py, SonarResultsGenerator.py, rq2script.py: the final CSV            *)
(***************************************************************************)
\* C18 (as claimed): each of the batch scripts ends its run with its final
\* CSV written, also when no record was collected, and without an
\* exception leaving main: post_commit_analysis_summary.csv of
\* rq2script.py, the summary report of ow.py, all_results.csv of
\* SonarResultsGenerator.py
C18_FinalCsvAlwaysWritten ==
    /\ rq_pc = "done" => commit_csv.exists
    /\ ow_pc \in {"done", "exit1"} => summary_csv.exists
    /\ sn_pc \in {"done", "aborted"} =>
          all_results_csv.exists /\ sn_pc = "done"

(***************************************************************************)
(* SonarResultsGenerator.py, export phase: the claims                      *)
(***************************************************************************)
\* the positions of all_findings_list with the issues fetched for project i
FindingsOf(i) ==
    {k \in DOMAIN all_findings_list : all_findings_list[k].fetched_for = i}

\* the number of issues fetched for the projects 1..n
RECURSIVE FetchedUpTo(_)
FetchedUpTo(n) == IF n = 0 THEN 0 ELSE sn_fetched[n] + FetchedUpTo(n - 1)

\* the export workers inside the with block
InAppendSection == {i \in SonarProjects : sn_export[i] = "locked"}

\* C20: the findings list is appended to only under the lock: at most one
\* export worker is in the append section, and it holds the lock; the
\* issues of a project are one contiguous block of the list; every finding
\* is tagged with the project it was fetched for; no issue is in the list
\* twice; and once a worker has left the append section, and so after the
\* export phase, the list has every issue fetched for its project
C20_AppendsUnderLock ==
    /\ Cardinality(InAppendSection) <= 1
    /\ \A i \in InAppendSection : all_findings_lock = i
    /\ \A i \in SonarProjects :
          /\ FindingsOf(i) # {} => sn_export[i] \in {"locked", "done"}
          /\ \A j, k \in FindingsOf(i) :
                /\ \A m \in j..k : m \in FindingsOf(i)
                /\ j # k => all_findings_list[j].issue # all_findings_list[k].issue
          /\ Cardinality(FindingsOf(i)) + sn_issues[i] = sn_fetched[i]
          /\ sn_export[i] = "done" => sn_issues[i] = 0
    /\ \A k \in DOMAIN all_findings_list :
          /\ all_findings_list[k].project = all_findings_list[k].fetched_for
          /\ all_findings_list[k].issue \in 1..sn_fetched[all_findings_list[k].fetched_for]
    /\ sn_pc = "done" =>
          /\ Len(all_findings_list) = FetchedUpTo(NumSonarProjects)
          /\ all_results_csv.exists => all_results_csv.rows = all_findings_list

\* a worker is appending the issues of its project while another, with
\* issues of its own, waits for the lock
C20_Contention ==
    \E i, j \in SonarProjects :
        /\ sn_export[i] = "locked"
        /\ sn_export[j] = "waiting"
        /\ FindingsOf(i) # {}
        /\ sn_issues[i] > 0
        /\ sn_issues[j] > 0

(***************************************************************************)
(* The CSV writers: the claims                                             *)
(***************************************************************************)
\* the column set of the call: the explicit list, or the keys of the first
\* row
ColumnsOfCall ==
    IF wr_writer = SAVE_RESULTS THEN OUTPUT_COLUMNS ELSE wr_rows[1].keys

\* the header and then the line of every row, in input order
HeaderAndRows(columns) ==
    Written(<<columns>> \o [k \in DOMAIN wr_rows |-> Line(wr_rows[k], columns)])

\* what the claim says of a call that has data to write: header and rows
\* when the directory is there; otherwise no directory made, nothing
\* written, the error reported, and False from save_results_to_csv
WritesOrFails ==
    IF wr_dir_existed
    THEN /\ wr_file = HeaderAndRows(ColumnsOfCall)
         /\ ~wr_reported
    ELSE /\ ~wr_dir_exists
         /\ wr_file = NoFile
         /\ wr_reported
         /\ wr_writer = SAVE_RESULTS => wr_outcome = "False"

CompletedSet == {completed_projects[k] : k \in DOMAIN completed_projects}

\* the projects whose scan_project call returned (key, True)
ScanSucceeded == {i \in SonarProjects : sn_scan[i] = "ok"}

\* phase 1 is over: the with block of the scan pool has been left
ScanPhaseOver == sn_pc \in {"export", "done", "aborted"}

\* C21: the scan phase runs under a pool of MAX_WORKERS threads: never more
\* than MAX_WORKERS scan_project calls are running; when the phase is over
\* every enumerated project has been scanned (its one future has finished);
\* and, whatever the completion order, completed_projects is then exactly
\* the set of the projects whose scan returned success, each once
C21_PoolBoundAndCompleted ==
    /\ Cardinality(Scanning) <= MAX_WORKERS
    /\ ScanPhaseOver =>
          /\ \A i \in SonarProjects : sn_scan[i] \in ScanFinished
          /\ CompletedSet = ScanSucceeded
          /\ Len(completed_projects) = Cardinality(ScanSucceeded)

\* what a call of search_repositories added to all_repos
ItemsOfCall(k) ==
    IF gh_returned[k].none THEN <<>> ELSE PageItems(gh_asked[k], gh_returned[k].items)

\* the items of the first n calls, in the order of the calls
RECURSIVE ItemsUpTo(_)
ItemsUpTo(n) == IF n = 0 THEN <<>> ELSE ItemsUpTo(n - 1) \o ItemsOfCall(n)

\* a result at which the loop stops: None, or a page with no item
StopsAt(result) == result.none \/ result.items = 0

\* the number of pages of the range
PagesOfRange ==
    IF gh_end_page >= gh_start_page THEN gh_end_page - gh_start_page + 1 ELSE 0

\* C22: get_repositories_by_page_range calls search_repositories once per
\* page, for the pages start_page, start_page + 1, ... in this order and
\* never beyond end_page; it makes no call after a call that returned None
\* or a page without items; all_repos is at every moment, and so at the
\* return, the concatenation in page order of the items of the pages
\* fetched so far; and it returns either after a stopping page or after the
\* last page of the range
C22_OneRequestPerPageInOrder ==
    /\ \A k \in DOMAIN gh_asked :
          /\ gh_asked[k] = gh_start_page + k - 1
          /\ gh_asked[k] <= gh_end_page
    /\ Len(gh_returned) <= Len(gh_asked)
    /\ Len(gh_asked) <= Len(gh_returned) + 1
    /\ \A k \in DOMAIN gh_returned : k < Len(gh_asked) => ~StopsAt(gh_returned[k])
    /\ all_repos = ItemsUpTo(Len(gh_returned))
    /\ gh_pc = "done" =>
          /\ Len(gh_returned) = Len(gh_asked)
          /\ \/ Len(gh_asked) = PagesOfRange
             \/ Len(gh_returned) > 0 /\ StopsAt(gh_returned[Len(gh_returned)])

\* pages 1 and 2 were asked for; page 1 had items, the call for page 2
\* returned None, and the items of page 1 are what is returned
C22_Witness ==
    /\ gh_pc = "done"
    /\ gh_asked = <<1, 2>>
    /\ ~gh_returned[1].none
    /\ gh_returned[1].items = MaxItems
    /\ gh_returned[2].none
    /\ Len(all_repos) = MaxItems

\* the contributors of the first n passes of a REST count that were
\* answered with 200
RECURSIVE LenSum(_, _)
LenSum(pages, n) == IF n = 0 THEN 0 ELSE LenSum(pages, n - 1) + pages[n].len

\* a pass at which the loop breaks: a status other than 200, an empty page
\* or a page with fewer than per_page contributors
StopPass(pass) == pass.kind = "status" \/ (pass.kind = "page" /\ pass.len < PerPage)

\* a pass in which an exception was raised: by the request, or by the
\* reading of the rate limit headers after a full page
RaisedPass(pass) == pass.kind = "raises" \/ ~pass.headers_ok

\* a pass after which the loop goes on: a full page
FullPass(pass) == pass.kind = "page" /\ pass.len = PerPage /\ pass.headers_ok

\* the pages asked for are 1, 2, 3, ... and every pass before the last one
\* got a full page
PagesInOrder(pages) ==
    \A n \in DOMAIN pages :
        /\ pages[n].page = n
        /\ n < Len(pages) => FullPass(pages[n])

\* the finished calls of get_repo_contributors_count_rest
RestCalls == {k \in DOMAIN ct_calls : ct_calls[k].rest_calls = 1}

\* C23 (as claimed): get_repo_contributors_count_rest asks for the pages 1,
\* 2, 3, ... and stops at the first page that is empty, has fewer than
\* per_page entries or has a status other than 200; the count returned is
\* the sum of the lengths of all the pages answered with 200
C23_AsClaimed ==
    \A k \in RestCalls :
        LET pages == ct_calls[k].rest_pages IN
        /\ PagesInOrder(pages)
        /\ ct_calls[k].rest_count = LenSum(pages, Len(pages))

\* C23 (amended): the pages asked for are 1, 2, 3, ...; the loop goes on
\* after a full page only, with the count so far the sum of the lengths of
\* the pages; it stops at the first page that is empty, short or not
\* answered with 200 and returns the sum of the lengths of the pages
\* answered with 200; when a request raises, or the rate limit headers of
\* a full page cannot be read, it returns 0 whatever was counted
C23_StopsAndSumsOrZero ==
    /\ \A k \in RestCalls :
          LET pages == ct_calls[k].rest_pages
              last == pages[Len(pages)] IN
          /\ pages # <<>>
          /\ PagesInOrder(pages)
          /\ StopPass(last) \/ RaisedPass(last)
          /\ StopPass(last) => ct_calls[k].rest_count = LenSum(pages, Len(pages))
          /\ RaisedPass(last) => ct_calls[k].rest_count = 0
    /\ ct_pc = "rest" =>
          /\ \A n \in DOMAIN ct_call.rest_pages :
                /\ ct_call.rest_pages[n].page = n
                /\ FullPass(ct_call.rest_pages[n])
          /\ ct_page = Len(ct_call.rest_pages) + 1
          /\ contributors_count = LenSum(ct_call.rest_pages, Len(ct_call.rest_pages))

\* a REST count got a full page and then a status other than 200 and
\* returned the length of the full page; another got a full page, then its
\* request raised, and it returned 0
C23_Witness ==
    \E j, k \in RestCalls :
        /\ Len(ct_calls[j].rest_pages) = 2
        /\ ct_calls[j].rest_pages[2].kind = "status"
        /\ ct_calls[j].rest_count = PerPage
        /\ Len(ct_calls[k].rest_pages) = 2
        /\ ct_calls[k].rest_pages[2].kind = "raises"
        /\ ct_calls[k].rest_count = 0

\* the 'git reset --hard' commands issued on a processed repository
ResetsOf(done) == {k \in DOMAIN done.cmds : done.cmds[k] = "reset"}

\* C24 (as claimed): when revert_repos_to_date is left, every repository of
\* the batch is in exactly one of two outcomes: it was hard-reset once, to
\* the commit the lookup returned, and is not in failed_projects, or it is
\* in failed_projects exactly once and no reset of it succeeded; and a
\* reset is issued only after the lookup has returned a commit
C24_ResetOnceOrFailedOnce ==
    /\ rv_pc \in {"done", "raised"} =>
          \A i \in 1..rv_n :
              /\ i \in DOMAIN rv_done
              /\ \/ /\ Cardinality(ResetsOf(rv_done[i])) = 1
                    /\ rv_done[i].tree = "old"
                    /\ FailuresOf(i) = {}
                 \/ /\ Cardinality(FailuresOf(i)) = 1
                    /\ rv_done[i].tree = "tip"
    /\ \A i \in DOMAIN rv_done : ResetsOf(rv_done[i]) # {} => rv_done[i].found
    /\ rv_pc = "found" => rv_repo.found

\* the projects for which export_scan_report has been submitted
ExportRequested == {i \in 1..NumSonarProjects : sn_export[i] # "none"}

\* C25: the two phases of main are strictly ordered: an export is
\* requested, and so started, only when every scan_project call has
\* finished, and only for a project whose scan returned success; step 3,
\* which writes the CSV, is reached only when no export worker is left
\* waiting or running
C25_PhasesOrdered ==
    /\ ExportRequested # {} =>
          \A j \in SonarProjects : sn_scan[j] \in ScanFinished
    /\ \A i \in ExportRequested : i \in SonarProjects /\ sn_scan[i] = "ok"
    /\ sn_pc \in {"scan", "unwind", "aborted"} => ExportRequested = {}
    /\ sn_pc = "done" \/ all_results_csv.exists =>
          \A i \in 1..NumSonarProjects : sn_export[i] \in {"none", "done"}

\* the CSV has been written; the scan of one project had failed and no
\* export was requested for it, the export of another project is done
C25_Witness ==
    /\ sn_pc = "done"
    /\ all_results_csv.exists
    /\ \E i, j \in SonarProjects :
          /\ sn_scan[i] = "failed"
          /\ sn_export[i] = "none"
          /\ sn_scan[j] = "ok"
          /\ sn_export[j] = "done"
          /\ sn_fetched[j] > 0

\* the throttling response: 403 with "rate limit exceeded" in its text
IsThrottling(resp) == resp.status = 403 /\ resp.text = RATE_LIMIT_TEXT

\* C26 (as claimed): _make_request goes round its loop again only after a
\* throttling response: after every other response, whatever its status
\* code, and after an exception of the request, the call has returned
C26_ReturnsUnlessThrottled ==
    gh_pc = "request" /\ gh_attempts > 0 => IsThrottling(gh_resp)

\* the four severity counters of a summary row add up to its total
TotalIsSum(row) ==
    row.totalVulnerabilities =
        row.criticalSeverityCount + row.highSeverityCount
            + row.mediumSeverityCount + row.lowSeverityCount

\* C27: in every summary row of ow.py, of a successful, an empty or a
\* failed scan, in summary_data and in the summary CSV,
\* totalVulnerabilities is the sum of the four severity counts, also when
\* processing stopped at a malformed vulnerability entry; the same holds of
\* the running counters after every vulnerability entry
C27_TotalIsSumOfCounters ==
    /\ \A k \in DOMAIN summary_data : TotalIsSum(summary_data[k])
    /\ \A k \in DOMAIN summary_csv.rows : TotalIsSum(summary_csv.rows[k])
    /\ total_count = critical_count + high_count + medium_count + low_count

\* the summary CSV has the row of a project whose processing stopped while
\* the detailed row of its second counted entry was built, a critical and
\* a high one, and the zero row of a project whose scan failed
C27_Witness ==
    /\ summary_csv.exists
    /\ \E j, k \in DOMAIN summary_csv.rows :
          /\ summary_csv.rows[j].totalVulnerabilities = 2
          /\ summary_csv.rows[j].criticalSeverityCount = 1
          /\ summary_csv.rows[j].highSeverityCount = 1
          /\ ow_lost[summary_csv.rows[j].projectName[1]] = 1
          /\ summary_csv.rows[k].totalVulnerabilities = 0
          /\ ow_scan[summary_csv.rows[k].projectName[1]] = "failed"

\* lines 77-79: the row meets the three thresholds
MeetsThresholds(repo) ==
    /\ PyInt(repo.stars) >= fl_args.min_stars
    /\ PyInt(repo.issues) >= fl_args.min_open_issues
    /\ TopicCount(repo.topics) >= fl_args.min_topics

\* C28 (as claimed): filter_repositories returns, and what it returns is
\* exactly the loaded rows that meet the three thresholds, in their
\* order; with all thresholds 0 that is every loaded row; and the rows
\* returned, filtered again with the same thresholds, are all kept
C28_ExactlyTheRowsThatMeet ==
    fl_pc = "done" =>
        /\ fl_idx > Len(repositories)
        /\ filtered_repos = SelectSeq(repositories, MeetsThresholds)
        /\ fl_args = [min_stars |-> 0, min_open_issues |-> 0, min_topics |-> 0] =>
              filtered_repos = repositories
        /\ SelectSeq(filtered_repos, MeetsThresholds) = filtered_repos

(***************************************************************************)
(* clone_repos.py: the claims                                              *)
(***************************************************************************)
\* the indexes of the rows from position k on that have a URL
RECURSIVE RowsWithUrl(_)
RowsWithUrl(k) ==
    IF k > Len(cl_rows) THEN <<>>
    ELSE (IF cl_rows[k] # "" THEN <<k>> ELSE <<>>) \o RowsWithUrl(k + 1)

\* the rows of the 'git clone' commands run, in the order of the commands
AttemptedRows == [k \in DOMAIN cl_attempts |-> cl_attempts[k].row]

\* C29 (as claimed): when clone_github_repos is left, the 'git clone'
\* commands it has run are one for every row with a non-empty html_url,
\* in the order of the rows, and none for a row with an empty one, whether
\* clones failed and whether or not the file was read with a later
\* encoding after the first one failed
C29_OneCloneAttemptPerRow ==
    cl_pc \in {"returned", "exit"} => AttemptedRows = RowsWithUrl(1)

(***************************************************************************)
(* rq3_2script.py, analyze_repositories: the claims                        *)
(***************************************************************************)
\* the summary rows of repository i
SummariesOf(i) ==
    {k \in DOMAIN summary_results : summary_results[k].repository = i}

\* C30 (as claimed): for a repository with n >= 1 qualifying issues the
\* indexes int(n * 0.25), n // 2 and int(n * 0.75) are within 0..n-1, and
\* its one summary row has issues_analyzed = n and
\* min <= p25 <= median <= p75 <= max; a repository without a qualifying
\* issue has no summary row
C30_PercentilesOrdered ==
    \A i \in DOMAIN ia_times :
        LET n == Len(ia_times[i]) IN
        IF n = 0 THEN SummariesOf(i) = {}
        ELSE /\ {P25Index(n), MedianIndex(n), P75Index(n)} \subseteq 0..(n - 1)
             /\ Cardinality(SummariesOf(i)) = 1
             /\ \A k \in SummariesOf(i) :
                   LET row == summary_results[k] IN
                   /\ row.issues_analyzed = n
                   /\ row.min_days <= row.p25_days
                   /\ row.p25_days <= row.median_days
                   /\ row.median_days <= row.p75_days
                   /\ row.p75_days <= row.max_days

====
